---------------------------- MODULE Spec2Model ----------------------------
(***************************************************************************)
(* Village simulation: the action catalog (village_actions.py), the        *)
(* village state and its day cycle (village_state.py), the rule engine of  *)
(* the oracle (oracle_agent.py) and the tile grid (grid_manager.py).       *)
(*                                                                         *)
(* Representation.  Stamina is a Python float in [0.0, 1.0]; every cost    *)
(* and gain of the catalog is a multiple of 0.01, so stamina is kept in    *)
(* hundredths (100 = 1.0).  The yield variance random.uniform(0.8, 1.2)    *)
(* is kept in hundredths too (80 .. 120).  Tier multipliers are kept in    *)
(* tenths (10 = 1.0).  Python's None is the value None below.  A message   *)
(* string is kept as the record of the facts it prints.  Rounding errors   *)
(* of binary floating point in repeated stamina updates are not modelled.  *)
(***************************************************************************)
EXTENDS Integers, Sequences, FiniteSets, TLC

VARIABLES
    villagers,      \* VillageState.villagers: the roster, in order
    resources,      \* VillageState.resources: wood, food, stone
    buildings,      \* VillageState.buildings: houses, workshops, farms
    day,            \* VillageState.day
    messages,       \* the list returned by the last execute_day call
    last_day,       \* the day at which the callers stop calling execute_day
    call,           \* arguments of a direct VillageActions.execute_action call
    ret,            \* what that call returned
    can,            \* what VillageActions.can_execute returned on the same arguments
    last_decisions, \* the decisions of the last /oracle/consult response or
                    \* /oracle/apply request: <<route, decisions>>, << >> before
    grid_size,      \* GridManager.grid_size
    grid,           \* GridManager.grid: tile key -> tile
    grid_resources, \* GridManager.resources
    tree_id_counter,\* GridManager.tree_id_counter
    oracle_position,\* GridManager.oracle_position
    cut_call,       \* arguments of the last GridManager.cut_tree call: <<x, y, tree_id>>
    cut_ret,        \* what that call returned: <<success, wood_gained>>
    felled,         \* history: the <<x, y, tree_id>> cut with success since the
                    \* last reset_grid (the "Tree .. cut at .." lines printed)
    environment_analysis, \* GridManager.environment_analysis: << >> for None,
                    \* else << the analysis >>
    hook_seen,      \* what each _analyze_environment call of the last grid
                    \* operation found in the GridManager it was given
    grid_op,        \* the GridManager method called last, "none" before any
    view,           \* what the last grid operation returned when it was
                    \* get_grid_state, get_viewport or apply_tile_images, else << >>
    position,       \* BuilderAgent.position: <<x, y>>; << >> without a builder
    inventory,      \* BuilderAgent.inventory
    builder_ret,    \* what the builder's last action returned
    delegated,      \* the GridManager.cut_tree calls the builder's last action
                    \* made: their arguments <<x, y, tree_id>>, in order
    action_history  \* BuilderAgent.action_history: <<action, what it acted on>>

village_vars == <<villagers, resources, buildings, day, messages, last_day>>
action_vars  == <<call, ret, can, last_decisions>>
grid_vars    == <<grid_size, grid, grid_resources, tree_id_counter,
                 oracle_position, cut_call, cut_ret, felled,
                 environment_analysis, hook_seen, grid_op, view>>
builder_vars == <<position, inventory, builder_ret, delegated, action_history>>
vars == <<villagers, resources, buildings, day, messages, last_day, call, ret,
          can, last_decisions, grid_size, grid, grid_resources, tree_id_counter, oracle_position,
          cut_call, cut_ret, felled, environment_analysis, hook_seen, grid_op, view,
          position, inventory, builder_ret, delegated, action_history>>

None == "None"

Min(a, b) == IF a < b THEN a ELSE b
Max(a, b) == IF a > b THEN a ELSE b

(***************************************************************************)
(* Bounds of the model and the sets the inputs are drawn from.             *)
(***************************************************************************)
MaxDay == 3            \* from the constructor, days are executed until this day
LateDay == 25          \* the day of the later village states
LateRun == 1           \* days executed from a later village state
MaxVillagers == 4      \* add_villager is not called on a full roster
MaxTreeId == 3
SteadyDays == 110      \* the loop with steady draws is followed to this day
LoopDays == 26         \* the closed loop of simulate_days is followed to this day
MaxHistory == 2        \* the longest action_history a builder is followed to
MaxForestHistory == 7  \* the same for the builder of the 3 x 3 forest
MaxFood == 2           \* the most food /give may bring an inventory to
MaxGiven == 100        \* the most wood, and the most stone, /give may bring an inventory to         \* initialize_grid is not called when it would pass this id

ResourceNames == {"wood", "food", "stone"}
BuildingNames == {"houses", "workshops", "farms"}

(***************************************************************************)
(* VillageActions.ACTIONS (the word ACTIONS is reserved in TLA+).  A       *)
(* definition has exactly the keys the source gives it, so that            *)
(* "'resource' in action_def" is a test on its DOMAIN.                      *)
(* requires_resources and resource_cost keep the dict order of the source. *)
(***************************************************************************)
Actions ==
    [chop_wood |->
        [resource |-> "wood", base_yield |-> 10, stamina_cost |-> 15,
         experience_gain |-> 5,
         job_requirements |-> {"woodcutter", "lumberjack", "builder"}],
     gather_food |->
        [resource |-> "food", base_yield |-> 8, stamina_cost |-> 12,
         experience_gain |-> 5,
         job_requirements |-> {"forager", "farmer", "chef"}],
     farm_crops |->
        [resource |-> "food", base_yield |-> 15, stamina_cost |-> 18,
         experience_gain |-> 8,
         job_requirements |-> {"farmer", "chef"}],
     cook_food |->
        [resource |-> "food", base_yield |-> 20, stamina_cost |-> 10,
         experience_gain |-> 10,
         job_requirements |-> {"chef"},
         requires_resources |-> <<[res |-> "food", amount |-> 10]>>],
     mine_stone |->
        [resource |-> "stone", base_yield |-> 12, stamina_cost |-> 20,
         experience_gain |-> 6,
         job_requirements |-> {"miner", "excavator", "engineer"}],
     build_house |->
        [building |-> "houses",
         resource_cost |-> <<[res |-> "wood", amount |-> 50],
                             [res |-> "stone", amount |-> 30]>>,
         stamina_cost |-> 25, experience_gain |-> 15,
         job_requirements |-> {"builder", "engineer"}],
     build_workshop |->
        [building |-> "workshops",
         resource_cost |-> <<[res |-> "wood", amount |-> 80],
                             [res |-> "stone", amount |-> 60]>>,
         stamina_cost |-> 30, experience_gain |-> 20,
         job_requirements |-> {"builder", "engineer"}],
     build_farm |->
        [building |-> "farms",
         resource_cost |-> <<[res |-> "wood", amount |-> 40],
                             [res |-> "food", amount |-> 20]>>,
         stamina_cost |-> 20, experience_gain |-> 15,
         job_requirements |-> {"farmer", "chef", "builder"}],
     rest |->
        [stamina_gain |-> 40, experience_gain |-> 0,
         job_requirements |-> {}]]

ActionNames == DOMAIN Actions

\* a slip in the table: the multipliers of tiers 2 and 3 exchanged
TierMultiplierSwapped(job_tier) ==
    CASE job_tier = 1 -> 10
      [] job_tier = 2 -> 20
      [] job_tier = 3 -> 15
      [] OTHER -> 10

\* TIER_MULTIPLIERS.get(job_tier, 1.0), in tenths
TierMultiplier(job_tier) ==
    CASE job_tier = 1 -> 10
      [] job_tier = 2 -> 15
      [] job_tier = 3 -> 20
      [] OTHER -> 10

\* action_def.get('stamina_cost', 0)
StaminaCost(action_def) ==
    IF "stamina_cost" \in DOMAIN action_def THEN action_def.stamina_cost ELSE 0

\* int(base_yield * tier_multiplier * variance): truncation of a positive product
ActualYield(base_yield, job_tier, variance) ==
    (base_yield * TierMultiplier(job_tier) * variance) \div 1000

\* the first entry of a cost list the pool does not cover, 0 if it covers all
RECURSIVE FirstMissing(_, _, _)
FirstMissing(costs, pool, i) ==
    IF i > Len(costs) THEN 0
    ELSE IF pool[costs[i].res] < costs[i].amount THEN i
    ELSE FirstMissing(costs, pool, i + 1)

\* "for res, cost in costs.items(): resources[res] -= cost"
RECURSIVE Deduct(_, _, _)
Deduct(costs, pool, i) ==
    IF i > Len(costs) THEN pool
    ELSE Deduct(costs,
                [pool EXCEPT ![costs[i].res] = @ - costs[i].amount],
                i + 1)

Message(kind, name, res, amount) ==
    [kind |-> kind, name |-> name, res |-> res, amount |-> amount]

Result(v, r, b, m) ==
    [villager |-> v, resources |-> r, buildings |-> b, message |-> m]

\* _execute_rest without the cap "min(1.0, ..)"
ExecuteRestUncapped(villager, res, bld, action_def) ==
    [villager |-> [villager EXCEPT !.stamina = villager.stamina + action_def.stamina_gain],
     resources |-> res, buildings |-> bld,
     message |-> [kind |-> "rested", name |-> villager.name, res |-> "", amount |-> 0]]

(***************************************************************************)
(* VillageActions._execute_rest                                            *)
(***************************************************************************)
ExecuteRest(villager, res, bld, action_def) ==
    LET v == [villager EXCEPT
                !.stamina = Min(100, villager.stamina + action_def.stamina_gain)]
    IN Result(v, res, bld, Message("rested", villager.name, "", 0))

\* _execute_resource_gathering consuming its input without the check of it
ExecuteResourceGatheringUnchecked(action, villager, res, bld, action_def, variance) ==
    LET needs == IF "requires_resources" \in DOMAIN action_def
                 THEN action_def.requires_resources ELSE << >>
        actual_yield == ActualYield(action_def.base_yield, villager.job_tier, variance)
    IN Result([villager EXCEPT
                  !.stamina = Max(0, villager.stamina - action_def.stamina_cost),
                  !.experience = Min(100, villager.experience + action_def.experience_gain)],
              [Deduct(needs, res, 1) EXCEPT ![action_def.resource] = @ + actual_yield],
              bld,
              Message("gathered", villager.name, action_def.resource, actual_yield))

(***************************************************************************)
(* VillageActions._execute_resource_gathering; variance is the value       *)
(* random.uniform(0.8, 1.2) returns in this call.                          *)
(***************************************************************************)
ExecuteResourceGathering(action, villager, res, bld, action_def, variance) ==
    LET needs == IF "requires_resources" \in DOMAIN action_def
                 THEN action_def.requires_resources ELSE <<>>
        missing == FirstMissing(needs, res, 1)
        consumed == Deduct(needs, res, 1)
        actual_yield == ActualYield(action_def.base_yield, villager.job_tier, variance)
        resource_type == action_def.resource
        gathered == [consumed EXCEPT ![resource_type] = @ + actual_yield]
        v == [villager EXCEPT
                !.stamina = Max(0, villager.stamina - action_def.stamina_cost),
                !.experience = Min(100, villager.experience + action_def.experience_gain)]
    IN IF missing # 0
       THEN Result(villager, res, bld,
                   Message("not_enough", villager.name, needs[missing].res, 0))
       ELSE Result(v, gathered, bld,
                   Message("gathered", villager.name, resource_type, actual_yield))

\* _execute_building with the check and the deduction in one loop: what was
\* deducted before the first missing resource stays deducted
ExecuteBuildingInterleaved(action, villager, res, bld, action_def) ==
    LET resource_cost == action_def.resource_cost
        missing == FirstMissing(resource_cost, res, 1)
        paid == Deduct(SubSeq(resource_cost, 1, missing - 1), res, 1)
        v == [villager EXCEPT
                !.stamina = Max(0, villager.stamina - action_def.stamina_cost),
                !.experience = Min(100, villager.experience + action_def.experience_gain)]
    IN IF missing # 0
       THEN [villager |-> villager, resources |-> paid, buildings |-> bld,
             message |-> [kind |-> "not_enough", name |-> villager.name,
                          res |-> resource_cost[missing].res, amount |-> 0]]
       ELSE [villager |-> v, resources |-> Deduct(resource_cost, res, 1),
             buildings |-> [bld EXCEPT ![action_def.building] = @ + 1],
             message |-> [kind |-> "built", name |-> villager.name,
                          res |-> action_def.building, amount |-> 0]]

\* _execute_building without the cap "min(100, ..)" on experience
ExecuteBuildingUncapped(action, villager, res, bld, action_def) ==
    LET resource_cost == action_def.resource_cost
        missing == FirstMissing(resource_cost, res, 1)
    IN IF missing # 0
       THEN Result(villager, res, bld,
                   Message("not_enough", villager.name, resource_cost[missing].res, 0))
       ELSE Result([villager EXCEPT
                       !.stamina = Max(0, villager.stamina - action_def.stamina_cost),
                       !.experience = villager.experience + action_def.experience_gain],
                   Deduct(resource_cost, res, 1),
                   [bld EXCEPT ![action_def.building] = @ + 1],
                   Message("built", villager.name, action_def.building, 0))

\* _execute_building raising the counter before the check of the resources
ExecuteBuildingCountsFirst(action, villager, res, bld, action_def) ==
    LET resource_cost == action_def.resource_cost
        missing == FirstMissing(resource_cost, res, 1)
        counted == [bld EXCEPT ![action_def.building] = @ + 1]
    IN IF missing # 0
       THEN Result(villager, res, counted,
                   Message("not_enough", villager.name, resource_cost[missing].res, 0))
       ELSE Result([villager EXCEPT
                       !.stamina = Max(0, villager.stamina - action_def.stamina_cost),
                       !.experience = Min(100, villager.experience + action_def.experience_gain)],
                   Deduct(resource_cost, res, 1),
                   counted,
                   Message("built", villager.name, action_def.building, 0))

\* _execute_building without the check of the resources
ExecuteBuildingUnchecked(action, villager, res, bld, action_def) ==
    [villager |-> [villager EXCEPT
                !.stamina = Max(0, villager.stamina - action_def.stamina_cost),
                !.experience = Min(100, villager.experience + action_def.experience_gain)],
     resources |-> Deduct(action_def.resource_cost, res, 1),
     buildings |-> [bld EXCEPT ![action_def.building] = @ + 1],
     message |-> [kind |-> "built", name |-> villager.name,
                  res |-> action_def.building, amount |-> 0]]

(***************************************************************************)
(* VillageActions._execute_building                                        *)
(***************************************************************************)
ExecuteBuilding(action, villager, res, bld, action_def) ==
    LET resource_cost == action_def.resource_cost
        missing == FirstMissing(resource_cost, res, 1)
        building_type == action_def.building
        v == [villager EXCEPT
                !.stamina = Max(0, villager.stamina - action_def.stamina_cost),
                !.experience = Min(100, villager.experience + action_def.experience_gain)]
    IN IF missing # 0
       THEN Result(villager, res, bld,
                   Message("not_enough", villager.name, resource_cost[missing].res, 0))
       ELSE Result(v, Deduct(resource_cost, res, 1),
                   [bld EXCEPT ![building_type] = @ + 1],
                   Message("built", villager.name, building_type, 0))

\* execute_action charging the stamina before it checks it
ExecuteActionChargesFirst(action, villager, res, bld, variance) ==
    IF action \notin DOMAIN Actions
    THEN Result(villager, res, bld, Message("unknown_action", villager.name, "", 0))
    ELSE LET action_def == Actions[action] IN
         IF action_def.job_requirements # {}
            /\ villager.job \notin action_def.job_requirements
         THEN Result(villager, res, bld, Message("wrong_job", villager.name, "", 0))
         ELSE IF villager.stamina < StaminaCost(action_def)
         THEN Result([villager EXCEPT !.stamina = Max(0, @ - StaminaCost(action_def))],
                     res, bld, Message("too_tired", villager.name, "", 0))
         ELSE IF action = "rest"
         THEN ExecuteRest(villager, res, bld, action_def)
         ELSE IF "resource" \in DOMAIN action_def
         THEN ExecuteResourceGathering(action, villager, res, bld, action_def, variance)
         ELSE IF "building" \in DOMAIN action_def
         THEN ExecuteBuilding(action, villager, res, bld, action_def)
         ELSE Result(villager, res, bld, Message("not_implemented", villager.name, "", 0))

(***************************************************************************)
(* VillageActions.execute_action                                           *)
(***************************************************************************)
ExecuteAction(action, villager, res, bld, variance) ==
    IF action \notin DOMAIN Actions
    THEN Result(villager, res, bld, Message("unknown_action", villager.name, "", 0))
    ELSE LET action_def == Actions[action] IN
         IF action_def.job_requirements # {}
            /\ villager.job \notin action_def.job_requirements
         THEN Result(villager, res, bld, Message("wrong_job", villager.name, "", 0))
         ELSE IF villager.stamina < StaminaCost(action_def)
         THEN Result(villager, res, bld, Message("too_tired", villager.name, "", 0))
         ELSE IF action = "rest"
         THEN ExecuteRest(villager, res, bld, action_def)
         ELSE IF "resource" \in DOMAIN action_def
         THEN ExecuteResourceGathering(action, villager, res, bld, action_def, variance)
         ELSE IF "building" \in DOMAIN action_def
         THEN ExecuteBuilding(action, villager, res, bld, action_def)
         ELSE Result(villager, res, bld, Message("not_implemented", villager.name, "", 0))

\* the message kinds with which execute_action rejects
Rejections == {"unknown_action", "wrong_job", "too_tired", "not_enough", "not_implemented"}

\* what can_execute returns, with the villager and the pool as it leaves them
CanResult(ok, reason, v, r) ==
    [can_execute |-> ok, reason |-> reason, villager |-> v, resources |-> r]

\* can_execute without the check of the building costs
CanExecuteNoCost(action, villager, res) ==
    IF action \notin DOMAIN Actions
    THEN CanResult(FALSE, "unknown_action", villager, res)
    ELSE LET action_def == Actions[action]
             needs == IF "requires_resources" \in DOMAIN action_def
                      THEN action_def.requires_resources ELSE << >>
         IN IF action_def.job_requirements # {}
               /\ villager.job \notin action_def.job_requirements
            THEN CanResult(FALSE, "wrong_job", villager, res)
            ELSE IF villager.stamina < StaminaCost(action_def)
            THEN CanResult(FALSE, "too_tired", villager, res)
            ELSE IF FirstMissing(needs, res, 1) # 0
            THEN CanResult(FALSE, "not_enough", villager, res)
            ELSE CanResult(TRUE, "OK", villager, res)

(***************************************************************************)
(* VillageActions.can_execute                                              *)
(***************************************************************************)
CanExecute(action, villager, res) ==
    IF action \notin DOMAIN Actions
    THEN CanResult(FALSE, "unknown_action", villager, res)
    ELSE LET action_def == Actions[action]
             needs == IF "requires_resources" \in DOMAIN action_def
                      THEN action_def.requires_resources ELSE << >>
             costs == IF "resource_cost" \in DOMAIN action_def
                      THEN action_def.resource_cost ELSE << >>
         IN IF action_def.job_requirements # {}
               /\ villager.job \notin action_def.job_requirements
            THEN CanResult(FALSE, "wrong_job", villager, res)
            ELSE IF villager.stamina < StaminaCost(action_def)
            THEN CanResult(FALSE, "too_tired", villager, res)
            ELSE IF FirstMissing(needs, res, 1) # 0
            THEN CanResult(FALSE, "not_enough", villager, res)
            ELSE IF FirstMissing(costs, res, 1) # 0
            THEN CanResult(FALSE, "not_enough", villager, res)
            ELSE CanResult(TRUE, "OK", villager, res)

(***************************************************************************)
(* VillageState                                                            *)
(***************************************************************************)
Villager(name, job, job_tier) ==
    [name |-> name, job |-> job, job_tier |-> job_tier,
     stamina |-> 100, experience |-> 0, assigned_task |-> None]

\* VillageState.__init__
VillageInit ==
    /\ resources = [wood |-> 50, food |-> 50, stone |-> 20]
    /\ villagers = << Villager("Alice", "woodcutter", 1),
                      Villager("Bob", "forager", 1),
                      Villager("Charlie", "miner", 1) >>
    /\ buildings = [houses |-> 1, workshops |-> 0, farms |-> 0]
    /\ day = 1
    /\ messages = <<>>
    /\ last_day = MaxDay

\* VillageState._find_villager: the index of the first villager of that name,
\* 0 for "return None"
RECURSIVE FindFrom(_, _, _)
FindFrom(vs, name, i) ==
    IF i > Len(vs) THEN 0
    ELSE IF vs[i].name = name THEN i
    ELSE FindFrom(vs, name, i + 1)

FindVillager(vs, name) == FindFrom(vs, name, 1)

\* Python truth value of an optional string: None and "" are false
Truthy(x) == x # None /\ x # ""

\* the assignments loop body overwriting the tier also when the job stays
ApplyAssignmentTierAlways(vs, assignment) ==
    LET i == FindVillager(vs, assignment.name)
        promoted == IF Truthy(assignment.new_job) /\ assignment.new_job # vs[i].job
                    THEN [vs EXCEPT ![i].job = assignment.new_job,
                                    ![i].job_tier = assignment.job_tier]
                    ELSE [vs EXCEPT ![i].job_tier = assignment.job_tier]
    IN IF i = 0 THEN vs
       ELSE IF Truthy(assignment.task)
            THEN [promoted EXCEPT ![i].assigned_task = assignment.task]
            ELSE promoted

\* one iteration of the assignments loop of apply_oracle_decisions
ApplyAssignment(vs, assignment) ==
    LET i == FindVillager(vs, assignment.name)
        promoted == IF Truthy(assignment.new_job) /\ assignment.new_job # vs[i].job
                    THEN [vs EXCEPT ![i].job = assignment.new_job,
                                    ![i].job_tier = assignment.job_tier]
                    ELSE vs
    IN IF i = 0 THEN vs
       ELSE IF Truthy(assignment.task)
            THEN [promoted EXCEPT ![i].assigned_task = assignment.task]
            ELSE promoted

\* one iteration of the build_actions loop of apply_oracle_decisions
ApplyBuildAction(vs, build_action) ==
    LET i == FindVillager(vs, build_action.assigned_to)
    IN IF i = 0 THEN vs
       ELSE [vs EXCEPT ![i].assigned_task = "build_" \o build_action.building]

\* the assignments loop leaving ("break") at a name that is not in the roster
RECURSIVE ApplyAssignmentsAbort(_, _, _)
ApplyAssignmentsAbort(vs, assignments, k) ==
    IF k > Len(assignments) THEN vs
    ELSE IF FindVillager(vs, assignments[k].name) = 0 THEN vs
    ELSE ApplyAssignmentsAbort(ApplyAssignment(vs, assignments[k]), assignments, k + 1)

RECURSIVE ApplyAssignments(_, _, _)
ApplyAssignments(vs, assignments, k) ==
    IF k > Len(assignments) THEN vs
    ELSE ApplyAssignments(ApplyAssignment(vs, assignments[k]), assignments, k + 1)

RECURSIVE ApplyBuildActions(_, _, _)
ApplyBuildActions(vs, build_actions, k) ==
    IF k > Len(build_actions) THEN vs
    ELSE ApplyBuildActions(ApplyBuildAction(vs, build_actions[k]), build_actions, k + 1)

\* apply_oracle_decisions with its two loops in the other order
ApplyDecisionsBuildFirst(vs, decisions) ==
    ApplyAssignments(ApplyBuildActions(vs, decisions.build_actions, 1),
                     decisions.assignments, 1)

\* VillageState.apply_oracle_decisions: the roster it leaves
ApplyDecisions(vs, decisions) ==
    ApplyBuildActions(ApplyAssignments(vs, decisions.assignments, 1),
                      decisions.build_actions, 1)

\* the loop body of execute_day without the "continue" of the idle branch
VillagerTurnNoContinue(st, k, variance) ==
    LET villager == st.villagers[k]
        task == villager.assigned_task
        r == ExecuteAction(task, villager, st.resources, st.buildings, variance)
        said == IF ~Truthy(task)
                THEN Append(st.messages, Message("idle", villager.name, "", 0))
                ELSE st.messages
    IN [villagers |-> [st.villagers EXCEPT ![k] = r.villager],
        resources |-> r.resources,
        buildings |-> r.buildings,
        messages  |-> Append(said, r.message)]

\* the loop body of execute_day clearing the task it executed
VillagerTurnClearsTask(st, k, variance) ==
    LET villager == st.villagers[k]
        task == villager.assigned_task
        r == ExecuteAction(task, villager, st.resources, st.buildings, variance)
    IN IF ~Truthy(task)
       THEN [st EXCEPT !.messages = Append(@, Message("idle", villager.name, "", 0))]
       ELSE [villagers |-> [st.villagers EXCEPT
                               ![k] = [r.villager EXCEPT !.assigned_task = None]],
             resources |-> r.resources,
             buildings |-> r.buildings,
             messages  |-> Append(st.messages, r.message)]

\* one iteration of the loop of execute_day, for villager k
VillagerTurn(st, k, variance) ==
    LET villager == st.villagers[k]
        task == villager.assigned_task
        r == ExecuteAction(task, villager, st.resources, st.buildings, variance)
    IN IF ~Truthy(task)
       THEN [st EXCEPT !.messages = Append(@, Message("idle", villager.name, "", 0))]
       ELSE [villagers |-> [st.villagers EXCEPT ![k] = r.villager],
             resources |-> r.resources,
             buildings |-> r.buildings,
             messages  |-> Append(st.messages, r.message)]

\* execute_day running every villager against the pool and the buildings of
\* the start of the day (snap), the updates merged in roster order
RECURSIVE RunFromSnapshot(_, _, _, _)
RunFromSnapshot(snap, st, draws, k) ==
    IF k > Len(st.villagers) THEN st
    ELSE LET villager == st.villagers[k]
             task == villager.assigned_task
             r == ExecuteAction(task, villager, snap.resources, snap.buildings, draws[k])
         IN IF ~Truthy(task)
            THEN RunFromSnapshot(snap,
                    [st EXCEPT !.messages = Append(@, Message("idle", villager.name, "", 0))],
                    draws, k + 1)
            ELSE RunFromSnapshot(snap,
                    [villagers |-> [st.villagers EXCEPT ![k] = r.villager],
                     resources |-> r.resources,
                     buildings |-> r.buildings,
                     messages  |-> Append(st.messages, r.message)],
                    draws, k + 1)

RunDaySnapshot(st, draws, k) == RunFromSnapshot(st, st, draws, k)

\* the loop of execute_day from villager k on; draws[k] is villager k's variance
RECURSIVE RunDay(_, _, _)
RunDay(st, draws, k) ==
    IF k > Len(st.villagers) THEN st
    ELSE RunDay(VillagerTurn(st, k, draws[k]), draws, k + 1)

(***************************************************************************)
(* OracleAgent: the rule engine                                            *)
(***************************************************************************)
JobTier(job, job_tier) == [job |-> job, tier |-> job_tier]

\* _check_promotion promoting a tier-1 villager at experience 70 already
CheckPromotionAtThreshold(job, tier, exp, res) ==
    IF job = "woodcutter" /\ tier = 1 /\ exp >= 70 THEN JobTier("lumberjack", 2)
    ELSE IF job = "lumberjack" /\ tier = 2 /\ exp > 85 /\ res.wood > 200
         THEN JobTier("builder", 3)
    ELSE IF job = "forager" /\ tier = 1 /\ exp >= 70 THEN JobTier("farmer", 2)
    ELSE IF job = "farmer" /\ tier = 2 /\ exp > 90 /\ res.food > 200
         THEN JobTier("chef", 3)
    ELSE IF job = "miner" /\ tier = 1 /\ exp >= 70 THEN JobTier("excavator", 2)
    ELSE IF job = "excavator" /\ tier = 2 /\ exp > 90 /\ res.stone > 150
         THEN JobTier("engineer", 3)
    ELSE JobTier(job, tier)

\* OracleAgent._check_promotion
CheckPromotion(job, tier, exp, res) ==
    IF job = "woodcutter" /\ tier = 1 /\ exp > 70 THEN JobTier("lumberjack", 2)
    ELSE IF job = "lumberjack" /\ tier = 2 /\ exp > 85 /\ res.wood > 200
         THEN JobTier("builder", 3)
    ELSE IF job = "forager" /\ tier = 1 /\ exp > 70 THEN JobTier("farmer", 2)
    ELSE IF job = "farmer" /\ tier = 2 /\ exp > 90 /\ res.food > 200
         THEN JobTier("chef", 3)
    ELSE IF job = "miner" /\ tier = 1 /\ exp > 70 THEN JobTier("excavator", 2)
    ELSE IF job = "excavator" /\ tier = 2 /\ exp > 90 /\ res.stone > 150
         THEN JobTier("engineer", 3)
    ELSE JobTier(job, tier)

\* task_map with .get(job, 'idle')
TaskMapIdle(job) ==
    CASE job \in {"woodcutter", "lumberjack", "builder"} -> "chop_wood"
      [] job = "forager" -> "gather_food"
      [] job = "farmer" -> "farm_crops"
      [] job = "chef" -> "cook_food"
      [] job \in {"miner", "excavator", "engineer"} -> "mine_stone"
      [] OTHER -> "idle"

\* task_map of _assign_task sending a farmer to build a farm
TaskMapFarm(job) ==
    CASE job \in {"woodcutter", "lumberjack", "builder"} -> "chop_wood"
      [] job = "forager" -> "gather_food"
      [] job = "farmer" -> "build_farm"
      [] job = "chef" -> "cook_food"
      [] job \in {"miner", "excavator", "engineer"} -> "mine_stone"
      [] OTHER -> "rest"

\* task_map of _assign_task, with .get(job, 'rest')
TaskMap(job) ==
    CASE job \in {"woodcutter", "lumberjack", "builder"} -> "chop_wood"
      [] job = "forager" -> "gather_food"
      [] job = "farmer" -> "farm_crops"
      [] job = "chef" -> "cook_food"
      [] job \in {"miner", "excavator", "engineer"} -> "mine_stone"
      [] OTHER -> "rest"

\* OracleAgent._assign_task
AssignTask(job, tier, res) ==
    LET wood == res.wood
        food == res.food
        stone == res.stone
    IN IF tier = 3 /\ job = "builder" /\ wood >= 200 THEN "build_house"
       ELSE IF tier = 3 /\ job = "engineer" /\ stone >= 150 /\ wood >= 100
            THEN "build_workshop"
       ELSE IF tier = 3 /\ job = "chef" /\ food >= 180
            THEN (IF food > 50 THEN "cook_food" ELSE "gather_food")
       ELSE IF wood < 100 /\ job \in {"woodcutter", "lumberjack", "builder"}
            THEN "chop_wood"
       ELSE IF food < 100 /\ job = "forager" THEN "gather_food"
       ELSE IF food < 100 /\ job \in {"farmer", "chef"} THEN "farm_crops"
       ELSE IF stone < 80 /\ job \in {"miner", "excavator", "engineer"}
            THEN "mine_stone"
       ELSE TaskMap(job)

\* task.startswith('build_') and task.replace('build_', '') on the task names
\* _assign_task can return
BuildingOfTask(task) ==
    CASE task = "build_house" -> "house"
      [] task = "build_workshop" -> "workshop"
      [] task = "build_farm" -> "farm"
      [] OTHER -> None

Assignment(name, new_job, job_tier, task) ==
    [name |-> name, new_job |-> new_job, job_tier |-> job_tier, task |-> task]

BuildAction(building, assigned_to) ==
    [building |-> building, assigned_to |-> assigned_to]

\* the assignment of _fallback_logic with the rest check after the promotion
FallbackAssignmentRestLate(villager, res) ==
    LET p == CheckPromotion(villager.job, villager.job_tier, villager.experience, res)
    IN IF villager.stamina < 20
       THEN Assignment(villager.name, p.job, p.tier, "rest")
       ELSE Assignment(villager.name, p.job, p.tier, AssignTask(p.job, p.tier, res))

\* the assignment of _fallback_logic with the task of the job before promotion
FallbackAssignmentTaskFirst(villager, res) ==
    LET p == CheckPromotion(villager.job, villager.job_tier, villager.experience, res)
    IN IF villager.stamina < 20
       THEN Assignment(villager.name, villager.job, villager.job_tier, "rest")
       ELSE Assignment(villager.name, p.job, p.tier,
                       AssignTask(villager.job, villager.job_tier, res))

\* the assignment of _fallback_logic with the rest check at stamina < 0.1
FallbackAssignmentRestLow(villager, res) ==
    LET p == CheckPromotion(villager.job, villager.job_tier, villager.experience, res)
    IN IF villager.stamina < 10
       THEN Assignment(villager.name, villager.job, villager.job_tier, "rest")
       ELSE Assignment(villager.name, p.job, p.tier, AssignTask(p.job, p.tier, res))

\* the assignment _fallback_logic appends for one villager
FallbackAssignment(villager, res) ==
    LET p == CheckPromotion(villager.job, villager.job_tier, villager.experience, res)
    IN IF villager.stamina < 20
       THEN Assignment(villager.name, villager.job, villager.job_tier, "rest")
       ELSE Assignment(villager.name, p.job, p.tier, AssignTask(p.job, p.tier, res))

\* the build_actions of _fallback_logic without task.replace('build_', '')
FallbackBuildActionsKeepsPrefix(villager, res) ==
    LET a == FallbackAssignment(villager, res)
    IN IF villager.stamina >= 20 /\ a.job_tier = 3 /\ BuildingOfTask(a.task) # None
       THEN << BuildAction(a.task, villager.name) >>
       ELSE << >>

\* the build_actions _fallback_logic appends for one villager
FallbackBuildActions(villager, res) ==
    LET a == FallbackAssignment(villager, res)
    IN IF villager.stamina >= 20 /\ a.job_tier = 3 /\ BuildingOfTask(a.task) # None
       THEN << BuildAction(BuildingOfTask(a.task), villager.name) >>
       ELSE << >>

RECURSIVE FallbackFrom(_, _, _, _)
FallbackFrom(vs, res, k, acc) ==
    IF k > Len(vs) THEN acc
    ELSE FallbackFrom(vs, res, k + 1,
            [assignments |-> Append(acc.assignments, FallbackAssignment(vs[k], res)),
             build_actions |-> acc.build_actions \o FallbackBuildActions(vs[k], res)])

\* OracleAgent._fallback_logic
FallbackLogic(state) ==
    FallbackFrom(state.villagers, state.resources, 1,
                 [assignments |-> << >>, build_actions |-> << >>])

(***************************************************************************)
(* GridManager.  A tile is [tile_type, trees], trees the list of           *)
(* [id, cut] in list order; the key "x,y" of a tile is the pair <<x, y>>.  *)
(* The sub-tile offsets and the species of a tree, which no operation      *)
(* reads, are left out.                                                    *)
(***************************************************************************)
Pos == (0 .. grid_size - 1) \X (0 .. grid_size - 1)
TileTypes == {"grass", "dirt", "water"}
WoodYields == {5, 10, 15}      \* values of random.randint(5, 15)

\* the position of a tile if initialize_grid had its y loop outside
OrderYMajor(p) == p[2] * grid_size + p[1]

\* the position of a tile in the x-major, y-minor order of initialize_grid
Order(p) == p[1] * grid_size + p[2]

RECURSIVE Sum(_, _)
Sum(f, S) ==
    IF S = {} THEN 0
    ELSE LET p == CHOOSE q \in S : TRUE IN f[p] + Sum(f, S \ {p})

\* GridManager._count_total_trees on a grid: the trees that are not cut
CountTotalTrees(g) ==
    Sum([p \in DOMAIN g |-> Cardinality({j \in 1 .. Len(g[p].trees) : ~g[p].trees[j].cut})],
        DOMAIN g)

\* GridManager._generate_trees_for_tile: count trees with ids from first on
GenerateTrees(first, count) ==
    [j \in 1 .. count |-> [id |-> first + j - 1, cut |-> FALSE]]

\* GridManager.__init__(grid_size)
GridInit(sizes) ==
    /\ grid_size \in sizes
    /\ grid = << >>
    /\ grid_resources = [wood |-> 0, stone |-> 0, food |-> 0]
    /\ tree_id_counter = 0
    /\ oracle_position = << >>       \* None
    /\ cut_call = << >>              \* no call yet
    /\ cut_ret = << >>
    /\ felled = {}
    /\ environment_analysis = << >>
    /\ hook_seen = << >>
    /\ grid_op = "none"
    /\ view = << >>

\* builder_api.builders = {}: no builder was created
NoBuilder ==
    /\ position = << >>
    /\ inventory = << >>
    /\ builder_ret = << >>
    /\ delegated = << >>
    /\ action_history = << >>

\* the grid initialize_grid builds (it overwrites every tile) for the drawn
\* tile types and tree counts, with the id counter at first
NewGrid(types, counts, first) ==
    [p \in Pos |->
        [tile_type |-> types[p],
         tile_image_url |-> None,
         trees |-> GenerateTrees(first + Sum(counts, {q \in Pos : Order(q) < Order(p)}),
                                 counts[p])]]

\* the draws initialize_grid can make: no trees on water, else 0, 1 or 2
Layouts ==
    {l \in [types : [Pos -> TileTypes], counts : [Pos -> 0 .. 2]] :
        \A p \in Pos : l.types[p] = "water" => l.counts[p] = 0}

\* what an analysis holds of the grid it was made of (tree_count of
\* OracleEnvironmentAnalyzer._fallback_analysis)
Analysis(g) == [tree_count |-> CountTotalTrees(g)]

\* GridManager._analyze_environment, called when the GridManager holds grid g
\* and pool res: the analyzer, or the fallback spawn, leaves some position of
\* the map in oracle_position; an analysis that was obtained is stored, else
\* the old one stays
AnalyzeEnvironment(g, res) ==
    /\ oracle_position' \in Pos
    /\ environment_analysis' \in {environment_analysis, << Analysis(g) >>}
    /\ hook_seen' = << [tree_count |-> CountTotalTrees(g), wood |-> res.wood] >>

\* initialize_grid starting its ids at 0 again
InitializeGridWithFromZero(l) ==
    /\ tree_id_counter + Sum(l.counts, Pos) <= MaxTreeId
    /\ grid' = NewGrid(l.types, l.counts, 0)
    /\ tree_id_counter' = tree_id_counter + Sum(l.counts, Pos)
    /\ AnalyzeEnvironment(NewGrid(l.types, l.counts, 0), grid_resources)
    /\ grid_op' = "initialize_grid"
    /\ view' = << >>
    /\ UNCHANGED <<grid_size, grid_resources, cut_call, cut_ret, felled>>
    /\ UNCHANGED <<village_vars, action_vars, builder_vars>>

\* GridManager.initialize_grid when the random draws are those of layout l
InitializeGridWith(l) ==
    /\ tree_id_counter + Sum(l.counts, Pos) <= MaxTreeId
    /\ grid' = NewGrid(l.types, l.counts, tree_id_counter)
    /\ tree_id_counter' = tree_id_counter + Sum(l.counts, Pos)
    /\ AnalyzeEnvironment(NewGrid(l.types, l.counts, tree_id_counter), grid_resources)
    /\ grid_op' = "initialize_grid"
    /\ view' = << >>
    /\ UNCHANGED <<grid_size, grid_resources, cut_call, cut_ret, felled>>
    /\ UNCHANGED <<village_vars, action_vars, builder_vars>>

\* GridManager.initialize_grid
InitializeGrid == \E l \in Layouts : InitializeGridWith(l)

\* reset_grid without "self.resources = {...}"
ResetGridWithKeepsPool(l) ==
    /\ Sum(l.counts, Pos) <= MaxTreeId
    /\ grid' = NewGrid(l.types, l.counts, 0)
    /\ tree_id_counter' = Sum(l.counts, Pos)
    /\ AnalyzeEnvironment(NewGrid(l.types, l.counts, 0), grid_resources)
    /\ felled' = {}
    /\ grid_op' = "reset_grid"
    /\ view' = << >>
    /\ UNCHANGED <<grid_size, grid_resources, cut_call, cut_ret>>
    /\ UNCHANGED <<village_vars, action_vars, builder_vars>>

\* reset_grid without "self.tree_id_counter = 0"
ResetGridWithKeepsCounter(l) ==
    /\ Sum(l.counts, Pos) <= MaxTreeId
    /\ grid' = NewGrid(l.types, l.counts, tree_id_counter)
    /\ tree_id_counter' = tree_id_counter + Sum(l.counts, Pos)
    /\ AnalyzeEnvironment(NewGrid(l.types, l.counts, tree_id_counter),
                          [wood |-> 0, stone |-> 0, food |-> 0])
    /\ grid_resources' = [wood |-> 0, stone |-> 0, food |-> 0]
    /\ felled' = {}
    /\ grid_op' = "reset_grid"
    /\ view' = << >>
    /\ UNCHANGED <<grid_size, cut_call, cut_ret>>
    /\ UNCHANGED <<village_vars, action_vars, builder_vars>>

\* GridManager.reset_grid when the random draws are those of layout l
ResetGridWith(l) ==
    /\ Sum(l.counts, Pos) <= MaxTreeId
    /\ grid' = NewGrid(l.types, l.counts, 0)
    /\ tree_id_counter' = Sum(l.counts, Pos)
    /\ AnalyzeEnvironment(NewGrid(l.types, l.counts, 0),
                          [wood |-> 0, stone |-> 0, food |-> 0])
    /\ grid_resources' = [wood |-> 0, stone |-> 0, food |-> 0]
    /\ felled' = {}
    /\ grid_op' = "reset_grid"
    /\ view' = << >>
    /\ UNCHANGED <<grid_size, cut_call, cut_ret>>
    /\ UNCHANGED <<village_vars, action_vars, builder_vars>>

\* GridManager.reset_grid
ResetGrid == \E l \in Layouts : ResetGridWith(l)

\* the search of cut_tree without "tree['id'] == tree_id"
RECURSIVE FindTreeAnyId(_, _, _)
FindTreeAnyId(trees, tree_id, i) ==
    IF i > Len(trees) THEN 0
    ELSE IF ~trees[i].cut THEN i
    ELSE FindTreeAnyId(trees, tree_id, i + 1)

\* the search of cut_tree without "and not tree['cut']"
RECURSIVE FindTreeAnyState(_, _, _)
FindTreeAnyState(trees, tree_id, i) ==
    IF i > Len(trees) THEN 0
    ELSE IF trees[i].id = tree_id THEN i
    ELSE FindTreeAnyState(trees, tree_id, i + 1)

\* the index of the first tree of the list with that id and not cut, 0 if none
RECURSIVE FindTree(_, _, _)
FindTree(trees, tree_id, i) ==
    IF i > Len(trees) THEN 0
    ELSE IF trees[i].id = tree_id /\ ~trees[i].cut THEN i
    ELSE FindTree(trees, tree_id, i + 1)

\* cut_tree calling _analyze_environment before it cuts
CutTreeHookFirst(x, y, tree_id) ==
    LET key == <<x, y>>
        i == IF key \in DOMAIN grid THEN FindTree(grid[key].trees, tree_id, 1) ELSE 0
    IN /\ cut_call' = <<x, y, tree_id>>
       /\ IF i = 0
          THEN /\ cut_ret' = <<FALSE, 0>>
               /\ hook_seen' = << >>
               /\ UNCHANGED <<grid, grid_resources, oracle_position, felled,
                              environment_analysis>>
          ELSE \E wood_gained \in WoodYields :
               /\ grid' = [grid EXCEPT ![key].trees[i].cut = TRUE]
               /\ grid_resources' = [grid_resources EXCEPT !.wood = @ + wood_gained]
               /\ AnalyzeEnvironment(grid, grid_resources)
               /\ cut_ret' = <<TRUE, wood_gained>>
               /\ felled' = felled \cup {<<x, y, tree_id>>}
       /\ grid_op' = "cut_tree"
       /\ view' = << >>
       /\ UNCHANGED <<grid_size, tree_id_counter>>

\* the body of GridManager.cut_tree, for every caller
CutTreeCall(x, y, tree_id) ==
    LET key == <<x, y>>
        i == IF key \in DOMAIN grid THEN FindTree(grid[key].trees, tree_id, 1) ELSE 0
    IN /\ cut_call' = <<x, y, tree_id>>
       /\ IF i = 0
          THEN /\ cut_ret' = <<FALSE, 0>>
               /\ hook_seen' = << >>
               /\ UNCHANGED <<grid, grid_resources, oracle_position, felled,
                              environment_analysis>>
          ELSE \E wood_gained \in WoodYields :
               /\ grid' = [grid EXCEPT ![key].trees[i].cut = TRUE]
               /\ grid_resources' = [grid_resources EXCEPT !.wood = @ + wood_gained]
               /\ AnalyzeEnvironment([grid EXCEPT ![key].trees[i].cut = TRUE],
                                     [grid_resources EXCEPT !.wood = @ + wood_gained])
               /\ cut_ret' = <<TRUE, wood_gained>>
               /\ felled' = felled \cup {<<x, y, tree_id>>}
       /\ grid_op' = "cut_tree"
       /\ view' = << >>
       /\ UNCHANGED <<grid_size, tree_id_counter>>

\* GridManager.cut_tree called on the GridManager itself (the /api/grid/cut
\* route)
CutTree(x, y, tree_id) ==
    /\ CutTreeCall(x, y, tree_id)
    /\ UNCHANGED <<village_vars, action_vars, builder_vars>>

\* the tiles of the grid in the order of the dict, that of their first
\* insertion by initialize_grid
RECURSIVE TilesFrom(_, _)
TilesFrom(g, k) ==
    IF k >= grid_size * grid_size THEN << >>
    ELSE LET p == <<k \div grid_size, k % grid_size>>
         IN (IF p \in DOMAIN g THEN << g[p] >> ELSE << >>) \o TilesFrom(g, k + 1)

\* what GridManager.get_grid_state returns
GridState ==
    [grid_size |-> grid_size,
     tiles |-> TilesFrom(grid, 0),
     resources |-> grid_resources,
     oracle_position |-> oracle_position,
     environment_analysis |-> environment_analysis,
     stats |-> [total_trees |-> CountTotalTrees(grid),
                trees_cut |-> tree_id_counter - CountTotalTrees(grid)]]

\* GridManager.get_grid_state
GetGridState ==
    /\ view' = GridState
    /\ grid_op' = "get_grid_state"
    /\ UNCHANGED <<grid_size, grid, grid_resources, tree_id_counter, oracle_position,
                   cut_call, cut_ret, felled, environment_analysis, hook_seen>>
    /\ UNCHANGED <<village_vars, action_vars, builder_vars>>

\* the tiles get_viewport appends: x from x_start, y from y_start, both below
\* their end and below grid_size, x outside and y inside, keys of the grid only
RECURSIVE ViewportTiles(_, _, _, _, _)
ViewportTiles(x, y_start, x_stop, y_stop, y) ==
    IF x >= x_stop THEN << >>
    ELSE IF y >= y_stop THEN ViewportTiles(x + 1, y_start, x_stop, y_stop, y_start)
    ELSE (IF <<x, y>> \in DOMAIN grid THEN << grid[<<x, y>>] >> ELSE << >>)
         \o ViewportTiles(x, y_start, x_stop, y_stop, y + 1)

\* GridManager.get_viewport
GetViewport(x_start, y_start, x_end, y_end) ==
    /\ view' = [viewport |-> [x_start |-> x_start, y_start |-> y_start,
                              x_end |-> x_end, y_end |-> y_end],
                tiles |-> ViewportTiles(x_start, y_start, Min(x_end, grid_size),
                                        Min(y_end, grid_size), y_start),
                resources |-> grid_resources]
    /\ grid_op' = "get_viewport"
    /\ UNCHANGED <<grid_size, grid, grid_resources, tree_id_counter, oracle_position,
                   cut_call, cut_ret, felled, environment_analysis, hook_seen>>
    /\ UNCHANGED <<village_vars, action_vars, builder_vars>>

\* apply_tile_images writing the image into tile_type
ApplyTileImagesRetypes(tile_images_dict) ==
    /\ grid' = [p \in DOMAIN grid |->
                  IF grid[p].tile_type \in DOMAIN tile_images_dict
                  THEN [grid[p] EXCEPT !.tile_type = tile_images_dict[grid[p].tile_type]]
                  ELSE grid[p]]
    /\ view' = [updated_count |->
                  Cardinality({p \in DOMAIN grid :
                                  grid[p].tile_type \in DOMAIN tile_images_dict})]
    /\ grid_op' = "apply_tile_images"
    /\ UNCHANGED <<grid_size, grid_resources, tree_id_counter, oracle_position,
                   cut_call, cut_ret, felled, environment_analysis, hook_seen>>
    /\ UNCHANGED <<village_vars, action_vars, builder_vars>>

\* GridManager.apply_tile_images; tile_images_dict maps some tile types to
\* the URL of an image
ApplyTileImages(tile_images_dict) ==
    /\ grid' = [p \in DOMAIN grid |->
                  IF grid[p].tile_type \in DOMAIN tile_images_dict
                  THEN [grid[p] EXCEPT !.tile_image_url = tile_images_dict[grid[p].tile_type]]
                  ELSE grid[p]]
    /\ view' = [updated_count |->
                  Cardinality({p \in DOMAIN grid :
                                  grid[p].tile_type \in DOMAIN tile_images_dict})]
    /\ grid_op' = "apply_tile_images"
    /\ UNCHANGED <<grid_size, grid_resources, tree_id_counter, oracle_position,
                   cut_call, cut_ret, felled, environment_analysis, hook_seen>>
    /\ UNCHANGED <<village_vars, action_vars, builder_vars>>

(***************************************************************************)
(* The builder agent (builder_agent.py), one agent of builder_api.builders.*)
(* A result is modelled by its success flag, its action, the kind of its   *)
(* error (None when it has none) and the wood it reports (0 when it        *)
(* reports none); an entry of the action_history log by its action and    *)
(* what it acted on.                                                       *)
(***************************************************************************)
Abs(n) == IF n < 0 THEN -n ELSE n

\* the longest action_history followed on the grid at hand
HistoryBound == IF grid_size = 3 THEN MaxForestHistory ELSE MaxHistory

\* action_history.insert(0, entry) in the place of append
LogFront(entry) ==
    /\ Len(action_history) < HistoryBound
    /\ action_history' = << entry >> \o action_history

\* self.action_history.append(entry)
Log(entry) ==
    /\ Len(action_history) < HistoryBound
    /\ action_history' = Append(action_history, entry)

BuilderResult(success, action, error, wood_gained) ==
    [success |-> success, action |-> action, error |-> error,
     wood_gained |-> wood_gained]

\* the tiles BuilderAgent._initialize_position accepts at radius r around the
\* oracle: in the grid, grass, without a standing tree, not the oracle's own
SpawnTiles(r) ==
    {p \in DOMAIN grid :
        /\ Abs(p[1] - oracle_position[1]) <= r
        /\ Abs(p[2] - oracle_position[2]) <= r
        /\ p # oracle_position
        /\ grid[p].tile_type = "grass"
        /\ \A j \in 1 .. Len(grid[p].trees) : grid[p].trees[j].cut}

\* the first tile of a set in the order of the dx and dy loops
FirstTile(S) ==
    CHOOSE p \in S : \A q \in S : p[1] < q[1] \/ (p[1] = q[1] /\ p[2] <= q[2])

\* BuilderAgent._initialize_position: (1, 1) without an oracle, else the
\* first accepted tile of the smallest radius that has one, else the
\* oracle's position
InitializePosition ==
    IF oracle_position = << >> THEN <<1, 1>>
    ELSE IF SpawnTiles(1) # {} THEN FirstTile(SpawnTiles(1))
    ELSE IF SpawnTiles(2) # {} THEN FirstTile(SpawnTiles(2))
    ELSE IF SpawnTiles(3) # {} THEN FirstTile(SpawnTiles(3))
    ELSE oracle_position

\* POST /api/builder/create for an agent that does not exist yet
CreateBuilder ==
    /\ position = << >>
    /\ position' = InitializePosition
    /\ inventory' = [wood |-> 0, stone |-> 0, food |-> 0]
    /\ builder_ret' = << >>
    /\ delegated' = << >>
    /\ action_history' = << >>
    /\ UNCHANGED <<village_vars, action_vars, grid_vars>>

\* POST /api/builder/<agent_id>/give: get_or_create_builder, then the
\* amounts are added to the inventory
GiveBuilderResources(wood, stone, food) ==
    /\ LET inv == IF position = << >> THEN [wood |-> 0, stone |-> 0, food |-> 0]
                  ELSE inventory
       IN /\ inv.wood + wood <= MaxGiven
          /\ inv.stone + stone <= MaxGiven
          /\ inv.food + food <= MaxFood
          /\ inventory' = [wood |-> inv.wood + wood, stone |-> inv.stone + stone,
                           food |-> inv.food + food]
    /\ position' = IF position = << >> THEN InitializePosition ELSE position
    /\ UNCHANGED <<builder_ret, delegated, action_history>>
    /\ UNCHANGED <<village_vars, action_vars, grid_vars>>

\* BuilderAgent.action_talk
ActionTalk ==
    /\ position # << >>
    /\ Log(<<"talk", position>>)
    /\ builder_ret' = BuilderResult(TRUE, "talk", None, 0)
    /\ delegated' = << >>
    /\ UNCHANGED <<position, inventory>>
    /\ UNCHANGED <<village_vars, action_vars, grid_vars>>

\* action_walk without its bounds check
ActionWalkUnchecked(x, y) ==
    /\ position # << >>
    /\ position' = <<x, y>>
    /\ Log(<<"walk", <<position, <<x, y>> >> >>)
    /\ builder_ret' = BuilderResult(TRUE, "walk", None, 0)
    /\ delegated' = << >>
    /\ UNCHANGED inventory
    /\ UNCHANGED <<village_vars, action_vars, grid_vars>>

\* BuilderAgent.action_walk
ActionWalk(x, y) ==
    /\ position # << >>
    /\ IF ~(0 <= x /\ x < grid_size /\ 0 <= y /\ y < grid_size)
       THEN /\ builder_ret' = BuilderResult(FALSE, "walk", "out of bounds", 0)
            /\ UNCHANGED <<position, action_history>>
       ELSE /\ position' = <<x, y>>
            /\ Log(<<"walk", <<position, <<x, y>> >> >>)
            /\ builder_ret' = BuilderResult(TRUE, "walk", None, 0)
    /\ delegated' = << >>
    /\ UNCHANGED inventory
    /\ UNCHANGED <<village_vars, action_vars, grid_vars>>

\* action_cut with the reach of action_build
ActionCutReachTwo(x, y, tree_id) ==
    /\ position # << >>
    /\ LET distance == Abs(x - position[1]) + Abs(y - position[2])
       IN IF distance > 2
          THEN /\ builder_ret' = BuilderResult(FALSE, "cut", "too far away", 0)
               /\ delegated' = << >>
               /\ UNCHANGED <<inventory, action_history>>
               /\ UNCHANGED grid_vars
          ELSE /\ CutTreeCall(x, y, tree_id)
               /\ delegated' = << <<x, y, tree_id>> >>
               /\ IF cut_ret'[1]
                  THEN /\ inventory' = [inventory EXCEPT !.wood = @ + cut_ret'[2]]
                       /\ Log(<<"cut", <<x, y, tree_id, cut_ret'[2]>> >>)
                       /\ builder_ret' = BuilderResult(TRUE, "cut", None, cut_ret'[2])
                  ELSE /\ builder_ret' = BuilderResult(FALSE, "cut", "not found", 0)
                       /\ UNCHANGED <<inventory, action_history>>
    /\ UNCHANGED position
    /\ UNCHANGED <<village_vars, action_vars>>

\* BuilderAgent.action_cut
ActionCut(x, y, tree_id) ==
    /\ position # << >>
    /\ LET distance == Abs(x - position[1]) + Abs(y - position[2])
       IN IF distance > 1
          THEN /\ builder_ret' = BuilderResult(FALSE, "cut", "too far away", 0)
               /\ delegated' = << >>
               /\ UNCHANGED <<inventory, action_history>>
               /\ UNCHANGED grid_vars
          ELSE /\ CutTreeCall(x, y, tree_id)
               /\ delegated' = << <<x, y, tree_id>> >>
               /\ IF cut_ret'[1]
                  THEN /\ inventory' = [inventory EXCEPT !.wood = @ + cut_ret'[2]]
                       /\ Log(<<"cut", <<x, y, tree_id, cut_ret'[2]>> >>)
                       /\ builder_ret' = BuilderResult(TRUE, "cut", None, cut_ret'[2])
                  ELSE /\ builder_ret' = BuilderResult(FALSE, "cut", "not found", 0)
                       /\ UNCHANGED <<inventory, action_history>>
    /\ UNCHANGED position
    /\ UNCHANGED <<village_vars, action_vars>>

\* requirements of action_build
Requirements ==
    [house |-> [wood |-> 50, stone |-> 20],
     workshop |-> [wood |-> 100, stone |-> 50],
     farm |-> [wood |-> 30, stone |-> 10]]

\* action_build checking the wood only
ActionBuildWoodOnly(building_type, x, y) ==
    /\ position # << >>
    /\ IF ~(0 <= x /\ x < grid_size /\ 0 <= y /\ y < grid_size)
       THEN /\ builder_ret' = BuilderResult(FALSE, "build", "out of bounds", 0)
            /\ UNCHANGED <<inventory, action_history>>
       ELSE IF Abs(x - position[1]) + Abs(y - position[2]) > 2
       THEN /\ builder_ret' = BuilderResult(FALSE, "build", "too far away", 0)
            /\ UNCHANGED <<inventory, action_history>>
       ELSE IF building_type \notin DOMAIN Requirements
       THEN /\ builder_ret' = BuilderResult(FALSE, "build", "unknown building type", 0)
            /\ UNCHANGED <<inventory, action_history>>
       ELSE LET required == Requirements[building_type]
            IN IF inventory.wood < required.wood
               THEN /\ builder_ret' = BuilderResult(FALSE, "build", "insufficient resources", 0)
                    /\ UNCHANGED <<inventory, action_history>>
               ELSE /\ inventory' = [inventory EXCEPT !.wood = @ - required.wood,
                                                      !.stone = @ - required.stone]
                    /\ Log(<<"build", <<building_type, x, y>> >>)
                    /\ builder_ret' = BuilderResult(TRUE, "build", None, 0)
    /\ delegated' = << >>
    /\ UNCHANGED position
    /\ UNCHANGED <<village_vars, action_vars, grid_vars>>

\* BuilderAgent.action_build
ActionBuild(building_type, x, y) ==
    /\ position # << >>
    /\ IF ~(0 <= x /\ x < grid_size /\ 0 <= y /\ y < grid_size)
       THEN /\ builder_ret' = BuilderResult(FALSE, "build", "out of bounds", 0)
            /\ UNCHANGED <<inventory, action_history>>
       ELSE IF Abs(x - position[1]) + Abs(y - position[2]) > 2
       THEN /\ builder_ret' = BuilderResult(FALSE, "build", "too far away", 0)
            /\ UNCHANGED <<inventory, action_history>>
       ELSE IF building_type \notin DOMAIN Requirements
       THEN /\ builder_ret' = BuilderResult(FALSE, "build", "unknown building type", 0)
            /\ UNCHANGED <<inventory, action_history>>
       ELSE LET required == Requirements[building_type]
            IN IF inventory.wood < required.wood \/ inventory.stone < required.stone
               THEN /\ builder_ret' = BuilderResult(FALSE, "build", "insufficient resources", 0)
                    /\ UNCHANGED <<inventory, action_history>>
               ELSE /\ inventory' = [inventory EXCEPT !.wood = @ - required.wood,
                                                      !.stone = @ - required.stone]
                    /\ Log(<<"build", <<building_type, x, y>> >>)
                    /\ builder_ret' = BuilderResult(TRUE, "build", None, 0)
    /\ delegated' = << >>
    /\ UNCHANGED position
    /\ UNCHANGED <<village_vars, action_vars, grid_vars>>

(***************************************************************************)
(* parse_and_execute_action.  A command is the sequence of its characters. *)
(***************************************************************************)
\* the character classes of the patterns: \d, \s and \w
CharClass ==
    [d |-> {"0", "1", "2", "3", "4", "5", "6", "7", "8", "9"},
     s |-> {" "},
     w |-> {"0", "1", "2", "3", "4", "5", "6", "7", "8", "9", "_",
            "a", "b", "c", "d", "e", "f", "g", "h", "i", "j", "k", "l", "m",
            "n", "o", "p", "q", "r", "s", "t", "u", "v", "w", "x", "y", "z",
            "A", "B", "C", "D", "E", "F", "G", "H", "I", "J", "K", "L", "M",
            "N", "O", "P", "Q", "R", "S", "T", "U", "V", "W", "X", "Y", "Z"}]

\* the index after the longest run of characters of C that starts at i
RECURSIVE RunEnd(_, _, _)
RunEnd(s, i, C) ==
    IF i <= Len(s) /\ s[i] \in C THEN RunEnd(s, i + 1, C) ELSE i

\* str.strip()
RECURSIVE Strip(_)
Strip(s) ==
    IF s = << >> THEN s
    ELSE IF s[1] \in CharClass.s THEN Strip(Tail(s))
    ELSE IF s[Len(s)] \in CharClass.s THEN Strip(SubSeq(s, 1, Len(s) - 1))
    ELSE s

\* int() of the digits s[i .. j - 1]
RECURSIVE ToInt(_, _, _)
ToInt(s, i, j) ==
    IF j <= i THEN 0
    ELSE LET digits == <<"0", "1", "2", "3", "4", "5", "6", "7", "8", "9">>
         IN 10 * ToInt(s, i, j - 1) + (CHOOSE d \in 0 .. 9 : digits[d + 1] = s[j - 1])

\* the groups of (\d+),(\d+) ... with n groups matched at i: their values,
\* << >> without a match
RECURSIVE NumbersAt(_, _, _)
NumbersAt(s, i, n) ==
    LET e == RunEnd(s, i, CharClass.d)
    IN IF e = i THEN << >>
       ELSE IF n = 1 THEN << ToInt(s, i, e) >>
       ELSE IF e > Len(s) \/ s[e] # "," THEN << >>
       ELSE LET rest == NumbersAt(s, e + 1, n - 1)
            IN IF rest = << >> THEN << >> ELSE << ToInt(s, i, e) >> \o rest

\* the index after KEYWORD\s+ matched at i, 0 without a match
AfterKeyword(s, i, w) ==
    IF i + Len(w) - 1 <= Len(s) /\ SubSeq(s, i, i + Len(w) - 1) = w
          /\ RunEnd(s, i + Len(w), CharClass.s) > i + Len(w)
    THEN RunEnd(s, i + Len(w), CharClass.s)
    ELSE 0

\* re.search(r'KEYWORD\s+(\d+),...,(\d+)', s) with n groups: the values of
\* the leftmost match, << >> without one
RECURSIVE SearchNumbers(_, _, _, _)
SearchNumbers(s, i, w, n) ==
    IF i > Len(s) THEN << >>
    ELSE LET a == AfterKeyword(s, i, w)
             m == IF a = 0 THEN << >> ELSE NumbersAt(s, a, n)
         IN IF m # << >> THEN m ELSE SearchNumbers(s, i + 1, w, n)

\* re.search(r'BUILD\s+(\w+),(\d+),(\d+)', s): <<building type, x, y>> of the
\* leftmost match, << >> without one
RECURSIVE SearchBuild(_, _)
SearchBuild(s, i) ==
    IF i > Len(s) THEN << >>
    ELSE LET a == AfterKeyword(s, i, <<"B", "U", "I", "L", "D">>)
             e == IF a = 0 THEN 0 ELSE RunEnd(s, a, CharClass.w)
             m == IF a = 0 \/ e = a \/ e > Len(s) THEN << >>
                  ELSE IF s[e] # "," THEN << >>
                  ELSE NumbersAt(s, e + 1, 2)
         IN IF m # << >> THEN << SubSeq(s, a, e - 1) >> \o m
            ELSE SearchBuild(s, i + 1)

\* re.search(r'TALK\s+"([^"]+)"', s) or the same with single quotes: whether
\* one of them matches
SearchTalk(s) ==
    \E i \in 1 .. Len(s), q \in {"\"", "'"} :
        LET a == AfterKeyword(s, i, <<"T", "A", "L", "K">>)
        IN /\ a # 0
           /\ a + 2 <= Len(s)
           /\ s[a] = q
           /\ s[a + 1] # q
           /\ \E j \in a + 2 .. Len(s) : s[j] = q

\* BuilderAgent.parse_and_execute_action
ParseAndExecuteAction(action_string) ==
    LET s == Strip(action_string)
        walk == SearchNumbers(s, 1, <<"W", "A", "L", "K">>, 2)
        cut == SearchNumbers(s, 1, <<"C", "U", "T">>, 3)
        build == SearchBuild(s, 1)
        StartsWith(w) == Len(s) >= Len(w) /\ SubSeq(s, 1, Len(w)) = w
        \* the characters of a building type as the string action_build reads
        BuildingType(word) ==
            CASE word = <<"h", "o", "u", "s", "e">> -> "house"
              [] word = <<"w", "o", "r", "k", "s", "h", "o", "p">> -> "workshop"
              [] word = <<"f", "a", "r", "m">> -> "farm"
              [] OTHER -> "unknown"
    IN IF StartsWith(<<"T", "A", "L", "K">>) /\ SearchTalk(s)
       THEN ActionTalk
       ELSE IF StartsWith(<<"W", "A", "L", "K">>) /\ walk # << >>
       THEN ActionWalk(walk[1], walk[2])
       ELSE IF StartsWith(<<"C", "U", "T">>) /\ cut # << >>
       THEN ActionCut(cut[1], cut[2], cut[3])
       ELSE IF StartsWith(<<"B", "U", "I", "L", "D">>) /\ build # << >>
       THEN ActionBuild(BuildingType(build[1]), build[2], build[3])
       ELSE /\ position # << >>
            /\ builder_ret' = BuilderResult(FALSE, "unknown", "invalid format", 0)
            /\ delegated' = << >>
            /\ UNCHANGED <<position, inventory, action_history>>
            /\ UNCHANGED <<village_vars, action_vars, grid_vars>>

(***************************************************************************)
(* The builder's decision: call_builder_ai, its fallback, think_and_act.   *)
(* An outcome of the provider call is [kind, output, result, text]: kind   *)
(* "no_key", "exception" (requests.post raises, a timeout included),       *)
(* "status" (a status other than 200), "not_json" (response.json()         *)
(* raises), "dict" or "other" (the JSON value is a dict, or is not);       *)
(* output and result are the dict's entries of these keys: <<"falsy",      *)
(* << >> >> for a missing or falsy one, <<"str", characters>> for a        *)
(* string, <<"object", << >> >> for a truthy value that is not a string;   *)
(* text is str(result).                                                    *)
(***************************************************************************)
\* str(n) in an f-string
RECURSIVE Format(_)
Format(n) ==
    LET digits == <<"0", "1", "2", "3", "4", "5", "6", "7", "8", "9">>
    IN IF n < 0 THEN <<"-">> \o Format(-n)
       ELSE IF n < 10 THEN << digits[n + 1] >>
       ELSE Format(n \div 10) \o << digits[(n % 10) + 1] >>

\* the trees the loops of _fallback_decision meet: <<dx, dy, index in the
\* tile's list>> of the standing trees of the 3 x 3 tiles around the builder
NearbyTrees ==
    {c \in (-1 .. 1) \X (-1 .. 1) \X (1 .. 2) :
        LET x == position[1] + c[1]
            y == position[2] + c[2]
        IN /\ 0 <= x /\ x < grid_size /\ 0 <= y /\ y < grid_size
           /\ <<x, y>> \in DOMAIN grid
           /\ c[3] <= Len(grid[<<x, y>>].trees)
           /\ ~grid[<<x, y>>].trees[c[3]].cut}

\* _fallback_decision building a house from 50 wood on
FallbackDecisionBuildsEarly ==
    IF inventory.wood < 50
    THEN IF NearbyTrees # {}
         THEN LET first == CHOOSE c \in NearbyTrees : \A d \in NearbyTrees :
                              (c[1] * 3 + c[2]) * 3 + c[3] <= (d[1] * 3 + d[2]) * 3 + d[3]
                  x == position[1] + first[1]
                  y == position[2] + first[2]
              IN <<"C", "U", "T", " ">> \o Format(x) \o <<",">> \o Format(y) \o <<",">>
                    \o Format(grid[<<x, y>>].trees[first[3]].id)
         ELSE <<"W", "A", "L", "K", " ">> \o Format(Min(position[1] + 2, grid_size - 1))
                 \o <<",">> \o Format(position[2])
    ELSE <<"B", "U", "I", "L", "D", " ", "h", "o", "u", "s", "e", ",">>
            \o Format(Min(position[1] + 1, grid_size - 1)) \o <<",">> \o Format(position[2])

\* BuilderAgent._fallback_decision
FallbackDecision ==
    IF inventory.wood < 50
    THEN IF NearbyTrees # {}
         THEN LET first == CHOOSE c \in NearbyTrees : \A d \in NearbyTrees :
                              (c[1] * 3 + c[2]) * 3 + c[3] <= (d[1] * 3 + d[2]) * 3 + d[3]
                  x == position[1] + first[1]
                  y == position[2] + first[2]
              IN <<"C", "U", "T", " ">> \o Format(x) \o <<",">> \o Format(y) \o <<",">>
                    \o Format(grid[<<x, y>>].trees[first[3]].id)
         ELSE <<"W", "A", "L", "K", " ">> \o Format(Min(position[1] + 2, grid_size - 1))
                 \o <<",">> \o Format(position[2])
    ELSE IF inventory.wood >= 100
    THEN <<"B", "U", "I", "L", "D", " ", "h", "o", "u", "s", "e", ",">>
            \o Format(Min(position[1] + 1, grid_size - 1)) \o <<",">> \o Format(position[2])
    ELSE <<"T", "A", "L", "K", " ", "\"", "G", "a", "t", "h", "e", "r", "i", "n", "g", " ", "r", "e", "s", "o", "u", "r", "c", "e", "s", " ", "f", "o", "r", " ", "t", "h", "e", " ", "v", "i", "l", "l", "a", "g", "e", "\"">>

\* BuilderAgent.call_builder_ai: the action string it returns
CallBuilderAi(outcome) ==
    IF outcome.kind \in {"no_key", "exception", "status", "not_json"}
    THEN FallbackDecision
    ELSE LET action == IF outcome.kind = "dict" /\ outcome.output[1] # "falsy"
                       THEN outcome.output
                       ELSE IF outcome.kind = "dict" /\ outcome.result[1] # "falsy"
                       THEN outcome.result
                       ELSE <<"str", outcome.text>>
         IN IF action[1] = "object" THEN FallbackDecision    \* .strip() raises
            ELSE Strip(action[2])

\* BuilderAgent.think_and_act
ThinkAndAct(outcome) ==
    /\ position # << >>
    /\ IF CallBuilderAi(outcome) = << >>
       THEN /\ builder_ret' = BuilderResult(FALSE, None, "no action returned", 0)
            /\ delegated' = << >>
            /\ UNCHANGED <<position, inventory, action_history>>
            /\ UNCHANGED <<village_vars, action_vars, grid_vars>>
       ELSE ParseAndExecuteAction(CallBuilderAi(outcome))

(***************************************************************************)
(* Operations on the village                                               *)
(***************************************************************************)
JobNames == {"woodcutter", "lumberjack", "builder", "forager", "farmer", "chef",
             "miner", "excavator", "engineer"}

\* VillageState.JOB_TREES: the tier of a job on its path, and the path
JobTreeTier(job) ==
    CASE job \in {"woodcutter", "forager", "miner"} -> 1
      [] job \in {"lumberjack", "farmer", "excavator"} -> 2
      [] job \in {"builder", "chef", "engineer"} -> 3
      [] OTHER -> 0

JobTreePath(job) ==
    CASE job \in {"woodcutter", "lumberjack", "builder"} -> "wood"
      [] job \in {"forager", "farmer", "chef"} -> "food"
      [] job \in {"miner", "excavator", "engineer"} -> "stone"
      [] OTHER -> "none"

\* VillageState.add_villager
AddVillager(name, job, job_tier) ==
    /\ Len(villagers) < MaxVillagers
    /\ villagers' = Append(villagers, Villager(name, job, job_tier))
    /\ UNCHANGED <<resources, buildings, day, messages, last_day>>
    /\ UNCHANGED <<action_vars, grid_vars, builder_vars>>

\* VillageState.apply_oracle_decisions
ApplyOracleDecisions(decisions) ==
    /\ villagers' = ApplyDecisions(villagers, decisions)
    /\ UNCHANGED <<resources, buildings, day, messages, last_day>>
    /\ UNCHANGED <<action_vars, grid_vars, builder_vars>>

\* the draws of random.uniform(0.8, 1.2) of a day, out of the values vs: one
\* for each villager whose task is a gathering; no draw is made in the other
\* turns, whose entry is left at the first value
Draws(roster, vs) ==
    {draws \in [1 .. Len(roster) -> vs] :
        \A k \in 1 .. Len(roster) :
            (roster[k].assigned_task \notin ActionNames
             \/ "resource" \notin DOMAIN Actions[roster[k].assigned_task])
                => draws[k] = CHOOSE v \in vs : \A w \in vs : v <= w}

\* village_api.apply_oracle_decisions, the /oracle/apply route, on a request
\* that carries these decisions
ApplyRoute(decisions) ==
    /\ last_decisions = << >>
    /\ last_decisions' = <<"apply", decisions>>
    /\ villagers' = ApplyDecisions(villagers, decisions)
    /\ UNCHANGED <<resources, buildings, day, messages, last_day>>
    /\ UNCHANGED <<call, ret, can>>
    /\ UNCHANGED <<grid_vars, builder_vars>>

\* village_api.consult_oracle, the /oracle/consult route, answered by the rule
\* engine (make_decision without an API key)
ConsultOracle ==
    /\ last_decisions = << >>
    /\ last_decisions' =
          <<"consult", FallbackLogic([villagers |-> villagers, resources |-> resources])>>
    /\ UNCHANGED village_vars
    /\ UNCHANGED <<call, ret, can>>
    /\ UNCHANGED <<grid_vars, builder_vars>>

\* OracleAgent.make_decision on a state.  An outcome of the provider call is
\* [kind, value]: kind "no_key", "exception" (the call raises: an error
\* status, a timeout), "not_json" (json.loads raises) or "json", value then
\* what json.loads returns, as <<"object", record>>, <<"array", list>> or
\* <<"number", n>>
MakeDecision(state, outcome) ==
    IF outcome.kind = "json" THEN outcome.value
    ELSE <<"object", FallbackLogic(state)>>

\* village_api.consult_oracle, the /oracle/consult route, answered by
\* make_decision with this outcome of the provider call
ConsultProvider(outcome) ==
    /\ last_decisions = << >>
    /\ last_decisions' =
          <<"consult",
            MakeDecision([villagers |-> villagers, resources |-> resources], outcome)>>
    /\ UNCHANGED village_vars
    /\ UNCHANGED <<call, ret, can>>
    /\ UNCHANGED <<grid_vars, builder_vars>>

\* what execute_day leaves, with the variance drawn in each villager's turn
DayResult(vs, draws) ==
    RunDay([villagers |-> vs, resources |-> resources,
            buildings |-> buildings, messages |-> << >>], draws, 1)

\* VillageState.execute_day
ExecuteDay(draws) ==
    /\ day < last_day
    /\ \E st \in {DayResult(villagers, draws)} :
       /\ villagers' = st.villagers
       /\ resources' = st.resources
       /\ buildings' = st.buildings
       /\ messages' = st.messages
       /\ day' = day + 1
    /\ UNCHANGED last_day
    /\ UNCHANGED <<action_vars, grid_vars, builder_vars>>

\* one round of simulate_days that executes the day without applying the
\* decisions of the oracle
RunOracleCycleNoApply(draws) ==
    /\ day < last_day
    /\ \E st \in {DayResult(villagers, draws)} :
       /\ villagers' = st.villagers
       /\ resources' = st.resources
       /\ buildings' = st.buildings
       /\ messages' = st.messages
       /\ day' = day + 1
    /\ UNCHANGED last_day
    /\ UNCHANGED <<action_vars, grid_vars, builder_vars>>

\* village_api.run_oracle_cycle, one round of simulate_days: the oracle decides
\* by its rule engine, the decisions are applied, the day is executed
RunOracleCycle(draws) ==
    /\ day < last_day
    /\ \E decisions \in {FallbackLogic([villagers |-> villagers, resources |-> resources])} :
       \E st \in {DayResult(ApplyDecisions(villagers, decisions), draws)} :
       /\ villagers' = st.villagers
       /\ resources' = st.resources
       /\ buildings' = st.buildings
       /\ messages' = st.messages
       /\ day' = day + 1
    /\ UNCHANGED last_day
    /\ UNCHANGED <<action_vars, grid_vars, builder_vars>>

(***************************************************************************)
(* A direct call of execute_action: the arguments are drawn, the call      *)
(* returns.                                                                *)
(***************************************************************************)
CallJobs == JobNames \cup {"bard"}
CallTiers == 1 .. 4
CallStamina == {0, 10, 15, 30, 70, 100}
CallExperience == {0, 92, 100}
CallActions == ActionNames \cup {"dance"}
CallWood == {0, 40, 50, 80}
CallFood == {9, 10, 20}
CallStone == {29, 30, 60}
CallVariances == {80, 100, 120}

Pending == Message("pending", "", "", 0)

\* can_execute has not been called
CanPending == CanResult(FALSE, "pending", call.villager, call.resources)

CallInit ==
    /\ call \in [action : CallActions,
                 villager : [name : {"Alice"}, job : CallJobs, job_tier : CallTiers,
                             stamina : CallStamina, experience : CallExperience,
                             assigned_task : {None}],
                 resources : [wood : CallWood, food : CallFood, stone : CallStone],
                 buildings : {[houses |-> 1, workshops |-> 0, farms |-> 0]},
                 variance : CallVariances]
    /\ ret = Result(call.villager, call.resources, call.buildings, Pending)
    /\ can = CanPending
    /\ last_decisions = << >>

CallExecuteAction ==
    /\ ret.message = Pending
    /\ ret' = ExecuteAction(call.action, call.villager, call.resources,
                            call.buildings, call.variance)
    /\ UNCHANGED <<call, can, last_decisions>>
    /\ UNCHANGED <<village_vars, grid_vars, builder_vars>>

\* VillageActions.can_execute on the arguments of the call
CallCanExecute ==
    /\ can.reason = "pending"
    /\ can' = CanExecute(call.action, call.villager, call.resources)
    /\ UNCHANGED <<call, ret, last_decisions>>
    /\ UNCHANGED <<village_vars, grid_vars, builder_vars>>

\* no call of execute_action from outside the village
CallIdle ==
    /\ call = [action |-> "rest", villager |-> Villager("Alice", "woodcutter", 1),
               resources |-> [wood |-> 0, food |-> 0, stone |-> 0],
               buildings |-> [houses |-> 0, workshops |-> 0, farms |-> 0],
               variance |-> 100]
    /\ ret = Result(call.villager, call.resources, call.buildings, Pending)
    /\ can = CanPending
    /\ last_decisions = << >>

(***************************************************************************)
(* Spec: the village from its constructor, driven by arbitrary callers.    *)
(***************************************************************************)
JobInputs == {"builder", "chef"}
TierInputs == {3}
TaskInputs == {"chop_wood", "cook_food", "build_farm", "rest", "dance"}
Variances == {80, 120}

AssignmentInputs ==
    {Assignment("Alice", j, t, k) :
        j \in JobInputs \cup {None}, t \in TierInputs, k \in TaskInputs \cup {None}}
    \cup {Assignment("Nobody", "builder", 3, "rest")}

BuildActionInputs ==
    {BuildAction("house", n) : n \in {"Charlie", "Nobody"}}

DecisionInputs ==
    [assignments : {<< >>} \cup {<<a>> : a \in AssignmentInputs},
     build_actions : {<< >>} \cup {<<b>> : b \in BuildActionInputs}]

Init == VillageInit /\ CallIdle /\ GridInit({1}) /\ NoBuilder

Next ==
    \/ AddVillager("Dave", "builder", 3)
    \/ \E d \in DecisionInputs : ApplyOracleDecisions(d)
    \/ \E draws \in Draws(villagers, Variances) : ExecuteDay(draws)

Spec == Init /\ [][Next]_vars

(***************************************************************************)
(* SpecLate: the village some weeks after its construction.  The roster    *)
(* still holds Alice, Bob and Charlie in this order (no villager is ever   *)
(* removed); jobs and tasks are what earlier decisions made them,          *)
(* experience and stamina what earlier days left, the pool what earlier    *)
(* days and the resources route left.                                      *)
(***************************************************************************)
LateVillager(name, job, job_tier, stamina, experience, task) ==
    [name |-> name, job |-> job, job_tier |-> job_tier,
     stamina |-> stamina, experience |-> experience, assigned_task |-> task]

LateInit ==
    /\ \E t1 \in {"build_house", "chop_wood", "rest"}, s1 \in {30, 100}, e1 \in {0, 95, 100},
          t2 \in {"build_house", "chop_wood", None}, t3 \in {"mine_stone", None} :
          villagers = << LateVillager("Alice", "builder", 3, s1, e1, t1),
                         LateVillager("Bob", "builder", 3, 100, 90, t2),
                         LateVillager("Charlie", "miner", 1, 100, 0, t3) >>
    /\ resources \in [wood : {0, 50}, food : {50}, stone : {30}]
                     \cup {[wood |-> 100, food |-> 50, stone |-> 60]}
    /\ buildings = [houses |-> 1, workshops |-> 0, farms |-> 0]
    /\ day = LateDay
    /\ messages = << >>
    /\ last_day = LateDay + LateRun

LateDecisionInputs ==
    [assignments : {<< >>, << Assignment("Bob", "chef", 3, "cook_food") >>,
                    << Assignment("Dave", None, 3, "chop_wood") >>},
     build_actions : {<< >>}]

InitLate == LateInit /\ CallIdle /\ GridInit({1}) /\ NoBuilder

NextLate ==
    \/ AddVillager("Dave", "builder", 3)
    \/ \E d \in LateDecisionInputs : ApplyOracleDecisions(d)
    \/ \E draws \in Draws(villagers, Variances) : ExecuteDay(draws)

SpecLate == InitLate /\ [][NextLate]_vars

(***************************************************************************)
(* SpecCycle: the village some weeks after its construction, driven by     *)
(* the rule engine from then on.                                           *)
(***************************************************************************)
CycleInit ==
    /\ \E a \in {<<"woodcutter", 1, 75>>, <<"lumberjack", 2, 90>>},
          b \in {<<"forager", 1, 40>>, <<"farmer", 2, 95>>},
          s \in {15, 100} :
          villagers = << LateVillager("Alice", a[1], a[2], s, a[3], "chop_wood"),
                         LateVillager("Bob", b[1], b[2], 100, b[3], "gather_food"),
                         LateVillager("Charlie", "miner", 1, 100, 60, "mine_stone") >>
    /\ resources \in [wood : {50, 250}, food : {50, 250}, stone : {20}]
    /\ buildings = [houses |-> 1, workshops |-> 0, farms |-> 0]
    /\ day = LateDay
    /\ messages = << >>
    /\ last_day = LateDay + LateRun

InitCycle == CycleInit /\ CallIdle /\ GridInit({1}) /\ NoBuilder

NextCycle ==
    \/ \E n \in {"Alice", "Dave"}, j \in {"woodcutter", "miner"} : AddVillager(n, j, 1)
    \/ \E draws \in [1 .. Len(villagers) -> Variances] : RunOracleCycle(draws)

SpecCycle == InitCycle /\ [][NextCycle]_vars

(***************************************************************************)
(* SpecLoop: the village from its constructor, driven only by the closed   *)
(* loop of simulate_days: each day the rule engine decides on the current  *)
(* state, the decisions are applied, the day is executed.  The villagers   *)
(* of one day draw the same variance.                                      *)
(***************************************************************************)
LoopInit ==
    /\ resources = [wood |-> 50, food |-> 50, stone |-> 20]
    /\ villagers = << Villager("Alice", "woodcutter", 1),
                      Villager("Bob", "forager", 1),
                      Villager("Charlie", "miner", 1) >>
    /\ buildings = [houses |-> 1, workshops |-> 0, farms |-> 0]
    /\ day = 1
    /\ messages = << >>
    /\ last_day = LoopDays

InitLoop == LoopInit /\ CallIdle /\ GridInit({1}) /\ NoBuilder

NextLoop ==
    \E v \in Variances : RunOracleCycle([k \in 1 .. Len(villagers) |-> v])

SpecLoop == InitLoop /\ [][NextLoop]_vars

(***************************************************************************)
(* SpecSteady: the same closed loop followed for more days, every draw of  *)
(* random.uniform(0.8, 1.2) being 0.9.  simulate_days runs each of its     *)
(* rounds to the end, so the round is weakly fair.  The fairness is stated *)
(* on the day counter: a round has no condition but the bound of the days, *)
(* and every round is a step that adds one to the day.                     *)
(***************************************************************************)
SteadyVariances == {90}

SteadyInit ==
    /\ resources = [wood |-> 50, food |-> 50, stone |-> 20]
    /\ villagers = << Villager("Alice", "woodcutter", 1),
                      Villager("Bob", "forager", 1),
                      Villager("Charlie", "miner", 1) >>
    /\ buildings = [houses |-> 1, workshops |-> 0, farms |-> 0]
    /\ day = 1
    /\ messages = << >>
    /\ last_day = SteadyDays

InitSteady == SteadyInit /\ CallIdle /\ GridInit({1}) /\ NoBuilder

NextSteady ==
    \E v \in SteadyVariances : RunOracleCycle([k \in 1 .. Len(villagers) |-> v])

\* a round of simulate_days as the day counter shows it
DayPasses == day < last_day /\ day' = day + 1

SpecSteady == InitSteady /\ [][NextSteady]_vars /\ WF_day(DayPasses)

(***************************************************************************)
(* SpecCall: execute_action on its own, on drawn arguments.                *)
(***************************************************************************)
InitCall == VillageInit /\ CallInit /\ GridInit({1}) /\ NoBuilder

NextCall == CallExecuteAction

SpecCall == InitCall /\ [][NextCall]_vars

(***************************************************************************)
(* SpecCan: can_execute and execute_action on the same drawn arguments, in  *)
(* either order.                                                           *)
(***************************************************************************)
CanInit ==
    /\ call \in [action : CallActions,
                 villager : [name : {"Alice"}, job : CallJobs, job_tier : {1},
                             stamina : CallStamina, experience : {0},
                             assigned_task : {None}],
                 resources : [wood : CallWood, food : CallFood, stone : CallStone],
                 buildings : {[houses |-> 1, workshops |-> 0, farms |-> 0]},
                 variance : {100}]
    /\ ret = Result(call.villager, call.resources, call.buildings, Pending)
    /\ can = CanPending
    /\ last_decisions = << >>

InitCan == VillageInit /\ CanInit /\ GridInit({1}) /\ NoBuilder

NextCan ==
    \/ CallCanExecute
    \/ CallExecuteAction

SpecCan == InitCan /\ [][NextCan]_vars

(***************************************************************************)
(* SpecApply: one /oracle/apply request on a village of a later day.  The  *)
(* roster may hold a second villager named Alice (add_villager does not    *)
(* look at the names).                                                     *)
(***************************************************************************)
ApplyInit ==
    /\ \E a \in {<<"woodcutter", 1>>, <<"builder", 3>>}, t \in {None, "rest"},
          third \in {<< >>, << LateVillager("Alice", "miner", 1, 100, 0, None) >>} :
          villagers = << LateVillager("Alice", a[1], a[2], 55, 40, t),
                         LateVillager("Bob", "forager", 1, 100, 0, None) >> \o third
    /\ resources = [wood |-> 50, food |-> 50, stone |-> 20]
    /\ buildings = [houses |-> 1, workshops |-> 0, farms |-> 0]
    /\ day = LateDay
    /\ messages = << >>
    /\ last_day = LateDay + LateRun

\* the lists of at most two elements of S
UpToTwo(S) == {<< >>} \cup {<<a>> : a \in S} \cup {<<a, b>> : a \in S, b \in S}

ApplyAssignmentInputs ==
    {Assignment("Alice", j, t, k) :
        j \in {"woodcutter", "builder", None}, t \in {1, 3}, k \in {"chop_wood", None}}
    \cup {Assignment("Bob", None, 1, "gather_food"),
          Assignment("Nobody", "builder", 3, "rest")}

ApplyBuildActionInputs ==
    {BuildAction("house", "Alice"), BuildAction("farm", "Alice"),
     BuildAction("farm", "Bob"), BuildAction("house", "Nobody")}

ApplyInputs ==
    [assignments : UpToTwo(ApplyAssignmentInputs),
     build_actions : UpToTwo(ApplyBuildActionInputs)]

InitApply == ApplyInit /\ CallIdle /\ GridInit({1}) /\ NoBuilder

NextApply == \E d \in ApplyInputs : ApplyRoute(d)

SpecApply == InitApply /\ [][NextApply]_vars

(***************************************************************************)
(* SpecOracle: one /oracle/consult request on a village of a later day,    *)
(* with experience, stamina and pool at both sides of every threshold of   *)
(* the rule engine and jobs at tiers the job tree does not list            *)
(* (apply_oracle_decisions writes any it is given).                        *)
(***************************************************************************)
OracleInit ==
    /\ \E j \in JobNames \cup {"bard"}, t \in {1, 2, 3},
          e \in {70, 71, 85, 86, 90, 91}, s \in {19, 20},
          others \in {<< << >>, << >> >>,
                      << << >>, << LateVillager("Bob", "builder", 3, 19, 100, None) >> >>,
                      << << LateVillager("Bob", "builder", 3, 100, 100, None) >>, << >> >>} :
          villagers = others[1] \o << LateVillager("Alice", j, t, s, e, None) >> \o others[2]
    /\ resources \in
          [wood : {99, 100, 199, 200, 201}, food : {99, 100, 179, 180, 201},
           stone : {79, 80, 149, 150, 151}]
          \cup {[wood |-> 250, stone |-> 0, food |-> 0]}
    /\ buildings = [houses |-> 1, workshops |-> 0, farms |-> 0]
    /\ day = LateDay
    /\ messages = << >>
    /\ last_day = LateDay + LateRun

InitOracle == OracleInit /\ CallIdle /\ GridInit({1}) /\ NoBuilder

NextOracle == ConsultOracle

SpecOracle == InitOracle /\ [][NextOracle]_vars

(***************************************************************************)
(* SpecMap: a GridManager(grid_size = 2) that is initialized and reset.     *)
(* The tile types drawn are those of two maps, one with a water tile in    *)
(* the middle of the creation order and one that starts with it.           *)
(***************************************************************************)
MapTypes ==
    {[p \in (0 .. 1) \X (0 .. 1) |->
         CASE p = <<0, 1>> -> "water" [] p = <<1, 0>> -> "dirt" [] OTHER -> "grass"],
     [p \in (0 .. 1) \X (0 .. 1) |->
         CASE p = <<0, 0>> -> "water" [] OTHER -> "grass"]}

MapLayouts ==
    {l \in [types : MapTypes, counts : [(0 .. 1) \X (0 .. 1) -> 0 .. 2]] :
        \A p \in (0 .. 1) \X (0 .. 1) : l.types[p] = "water" => l.counts[p] = 0}

InitMap == VillageInit /\ CallIdle /\ GridInit({2}) /\ NoBuilder

NextMap ==
    \/ \E l \in MapLayouts : InitializeGridWith(l)
    \/ \E l \in MapLayouts : ResetGridWith(l)

SpecMap == InitMap /\ [][NextMap]_vars

(***************************************************************************)
(* SpecTiles: a GridManager(grid_size = 2) whose grid is initialized with  *)
(* one of two layouts, cut, given tile images and read.                    *)
(***************************************************************************)
TilesLayouts ==
    {l \in MapLayouts :
        \/ l.counts = [p \in (0 .. 1) \X (0 .. 1) |->
                          CASE p = <<0, 0>> -> 1 [] p = <<1, 0>> -> 2 [] OTHER -> 0]
        \/ l.counts = [p \in (0 .. 1) \X (0 .. 1) |->
                          CASE p = <<1, 1>> -> 1 [] OTHER -> 0]}

CutInputs == {<<0, 0, 0>>, <<1, 0, 1>>, <<1, 1, 0>>, <<0, 1, 0>>, <<2, 0, 0>>}

TileImageInputs ==
    {("grass" :> "grass.png"), ("water" :> "water.png" @@ "forest" :> "forest.png")}

ViewportInputs == {<<0, 0, 2, 2>>, <<1, 0, 5, 1>>, <<-1, 1, 2, 3>>}

InitTiles == VillageInit /\ CallIdle /\ GridInit({2}) /\ NoBuilder

NextTiles ==
    \/ \E l \in TilesLayouts : InitializeGridWith(l)
    \/ \E c \in CutInputs : CutTree(c[1], c[2], c[3])
    \/ \E d \in TileImageInputs : ApplyTileImages(d)
    \/ \E v \in ViewportInputs : GetViewport(v[1], v[2], v[3], v[4])
    \/ GetGridState

SpecTiles == InitTiles /\ [][NextTiles]_vars

(***************************************************************************)
(* SpecGrid: the grid from its constructor, as GridManager(grid_size = 1). *)
(***************************************************************************)
NextGrid ==
    \/ InitializeGrid
    \/ ResetGrid
    \/ \E x \in 0 .. grid_size, y \in 0 .. grid_size, id \in 0 .. MaxTreeId :
          CutTree(x, y, id)

SpecGrid == Init /\ [][NextGrid]_vars

(***************************************************************************)
(* SpecPool: a GridManager(grid_size = 2) whose grid is initialized once   *)
(* with one of the layouts of SpecTiles, and then only cut and reset.      *)
(***************************************************************************)
NextPool ==
    \/ grid_op = "none" /\ \E l \in TilesLayouts : InitializeGridWith(l)
    \/ grid_op # "none" /\ \E l \in TilesLayouts : ResetGridWith(l)
    \/ grid_op # "none" /\ \E c \in CutInputs : CutTree(c[1], c[2], c[3])

SpecPool == InitTiles /\ [][NextPool]_vars

(***************************************************************************)
(* SpecStats: the operations of SpecGrid and get_grid_state.               *)
(***************************************************************************)
NextStats == NextGrid \/ GetGridState

SpecStats == Init /\ [][NextStats]_vars

(***************************************************************************)
(* SpecBuilder: a GridManager whose grid was initialized once (app.py),    *)
(* of size 2 with one tree or of size 7 without trees, and one builder of  *)
(* builder_api: created, given resources before it acts, and acting.       *)
(***************************************************************************)
BuilderLayout ==
    [types |-> [p \in Pos |-> IF p = <<0, 1>> THEN "water" ELSE "grass"],
     counts |-> [p \in Pos |-> IF grid_size = 2 /\ p = <<1, 1>> THEN 1 ELSE 0]]

BuilderGridInit ==
    /\ grid_size \in {2, 7}
    /\ grid = NewGrid(BuilderLayout.types, BuilderLayout.counts, 0)
    /\ grid_resources = [wood |-> 0, stone |-> 0, food |-> 0]
    /\ tree_id_counter = Sum(BuilderLayout.counts, Pos)
    /\ oracle_position \in {<<0, 0>>, <<grid_size - 2, grid_size - 3>>} \cap Pos
    /\ cut_call = << >>
    /\ cut_ret = << >>
    /\ felled = {}
    /\ environment_analysis = << Analysis(grid) >>
    /\ hook_seen = << [tree_count |-> CountTotalTrees(grid), wood |-> 0] >>
    /\ grid_op = "initialize_grid"
    /\ view = << >>

WalkInputs == {<<0, 0>>, <<1, 0>>, <<5, 5>>, <<-1, 0>>, <<7, 5>>, <<0, 2>>, <<1, -1>>}

BuilderCutInputs == {<<1, 1, 0>>, <<1, 1, 1>>, <<6, 5, 0>>}

BuildInputs ==
    {"house", "workshop", "farm", "tower"}
       \X {<<6, 5>>, <<1, 0>>, <<3, 5>>, <<4, 5>>, <<7, 5>>, <<5, -1>>}

GiveInputs == {<<100, 50, 2>>, <<60, 19, 0>>}

InitBuilder == VillageInit /\ CallIdle /\ BuilderGridInit /\ NoBuilder

NextBuilder ==
    \/ CreateBuilder
    \/ \E g \in GiveInputs :
          builder_ret = << >> /\ GiveBuilderResources(g[1], g[2], g[3])
    \/ ActionTalk
    \/ \E w \in WalkInputs : ActionWalk(w[1], w[2])
    \/ \E c \in BuilderCutInputs : ActionCut(c[1], c[2], c[3])
    \/ \E b \in BuildInputs : ActionBuild(b[1], b[2][1], b[2][2])

SpecBuilder == InitBuilder /\ [][NextBuilder]_vars

(***************************************************************************)
(* SpecParse: the builder of SpecBuilder driven by command strings through *)
(* parse_and_execute_action.                                               *)
(***************************************************************************)
ActionStrings ==
    {<<"W", "A", "L", "K", " ", "5", ",", "5">>,
     <<" ", "W", "A", "L", "K", " ", " ", "0", ",", "0", " ">>,
     <<"W", "A", "L", "K", " ", "1", "0", ",", "5">>,
     <<"W", "A", "L", "K", " ", "-", "1", ",", "0">>,
     <<"W", "A", "L", "K", "5", ",", "5">>,
     <<"C", "U", "T", " ", "1", ",", "1", ",", "0">>,
     <<"C", "U", "T", " ", "1", ",", "1", ",", "1">>,
     <<"C", "U", "T", " ", "1", ",", "1">>,
     <<"C", "U", "T", " ", "6", ",", "6", ",", "0">>,
     <<"B", "U", "I", "L", "D", " ", "h", "o", "u", "s", "e", ",", "6", ",", "5">>,
     <<"B", "U", "I", "L", "D", " ", "f", "a", "r", "m", ",", "1", ",", "0">>,
     <<"B", "U", "I", "L", "D", " ", "t", "o", "w", "e", "r", ",", "1", ",", "0">>,
     <<"B", "U", "I", "L", "D", " ", "f", "a", "r", "m", ",", "0", "7", ",", "5">>,
     <<"B", "U", "I", "L", "D", " ", "f", "a", "r", "m", " ", "1", ",", "0">>,
     <<"T", "A", "L", "K", " ", "\"", "h", "i", "\"">>,
     <<"T", "A", "L", "K", " ", "h", "i">>,
     <<"J", "U", "M", "P", " ", "1", ",", "1">>,
     << >>}

NextParse ==
    \/ CreateBuilder
    \/ \E g \in GiveInputs :
          builder_ret = << >> /\ GiveBuilderResources(g[1], g[2], g[3])
    \/ \E a \in ActionStrings : ParseAndExecuteAction(a)

SpecParse == InitBuilder /\ [][NextParse]_vars

(***************************************************************************)
(* SpecForest: a grid of size 3 initialized once, with seven trees around  *)
(* the tile (0, 1) the builder is created on, and a builder that starts    *)
(* with an empty inventory and is driven only by think_and_act without an  *)
(* API key.                                                                *)
(***************************************************************************)
ForestLayout ==
    [types |-> [p \in Pos |-> "grass"],
     counts |-> [p \in Pos |-> CASE p \in {<<0, 0>>, <<0, 2>>, <<1, 1>>} -> 2
                                  [] p = <<1, 2>> -> 1
                                  [] OTHER -> 0]]

ForestGridInit ==
    /\ grid_size = 3
    /\ grid = NewGrid(ForestLayout.types, ForestLayout.counts, 0)
    /\ grid_resources = [wood |-> 0, stone |-> 0, food |-> 0]
    /\ tree_id_counter = Sum(ForestLayout.counts, Pos)
    /\ oracle_position = <<1, 0>>
    /\ cut_call = << >>
    /\ cut_ret = << >>
    /\ felled = {}
    /\ environment_analysis = << Analysis(grid) >>
    /\ hook_seen = << [tree_count |-> CountTotalTrees(grid), wood |-> 0] >>
    /\ grid_op = "initialize_grid"
    /\ view = << >>

InitForest == VillageInit /\ CallIdle /\ ForestGridInit /\ NoBuilder

\* the outcome of a provider call that is not made: no API key
NoKey ==
    [kind |-> "no_key", output |-> <<"falsy", << >> >>, result |-> <<"falsy", << >> >>,
     text |-> << >>]

NextForest ==
    \/ CreateBuilder
    \/ ThinkAndAct(NoKey)

SpecForest == InitForest /\ [][NextForest]_vars

(***************************************************************************)
(* SpecProvider: the village and the builder of SpecBuilder with the       *)
(* external providers answering in every way: one /oracle/consult request, *)
(* and think_and_act calls of the builder.                                 *)
(***************************************************************************)
BuilderOutcomes ==
    {[kind |-> k, output |-> <<"falsy", << >> >>, result |-> <<"falsy", << >> >>,
      text |-> << >>] : k \in {"no_key", "exception", "status", "not_json"}}
    \cup
    {[kind |-> "dict", output |-> <<"str", <<"W", "A", "L", "K", " ", "5", ",", "5">>>>,
      result |-> <<"falsy", << >> >>, text |-> << >>],
     [kind |-> "dict", output |-> <<"falsy", << >> >>,
      result |-> <<"str", <<" ", "C", "U", "T", " ", "1", ",", "1", ",", "0">>>>, text |-> << >>],
     [kind |-> "dict", output |-> <<"str", <<" ">> >>,
      result |-> <<"falsy", << >> >>, text |-> << >>],
     [kind |-> "dict", output |-> <<"object", << >> >>,
      result |-> <<"falsy", << >> >>, text |-> << >>],
     [kind |-> "dict", output |-> <<"falsy", << >> >>,
      result |-> <<"falsy", << >> >>, text |-> <<"{", "'", "e", "r", "r", "o", "r", "'", ":", " ", "'", "b", "u", "s", "y", "'", "}">>],
     [kind |-> "other", output |-> <<"falsy", << >> >>,
      result |-> <<"falsy", << >> >>, text |-> <<"[", "]">>]}

OracleOutcomes ==
    {[kind |-> k, value |-> <<"number", 0>>] : k \in {"no_key", "exception", "not_json"}}
    \cup
    {[kind |-> "json",
      value |-> <<"object", [assignments |-> << Assignment("Alice", "woodcutter", 1, "rest") >>,
                             build_actions |-> << >>]>>],
     [kind |-> "json", value |-> <<"object", [error |-> "busy"]>>],
     [kind |-> "json", value |-> <<"array", << >> >>],
     [kind |-> "json", value |-> <<"number", 7>>]}

NextProvider ==
    \/ CreateBuilder
    \/ \E g \in GiveInputs :
          builder_ret = << >> /\ GiveBuilderResources(g[1], g[2], g[3])
    \/ \E o \in BuilderOutcomes : ThinkAndAct(o)
    \/ \E o \in OracleOutcomes : ConsultProvider(o)
    \/ \E draws \in Draws(villagers, Variances) : ExecuteDay(draws)

SpecProvider == InitBuilder /\ [][NextProvider]_vars
(***************************************************************************)
(* Properties                                                              *)
(***************************************************************************)

\* C1: from the constructor's pool, whatever decisions are applied and
\* whatever days are executed, with any task names and any yield draws, no
\* entry of the resource pool (wood, stone, food) is ever below 0.
C1_PoolNeverNegative ==
    \A r \in ResourceNames : resources[r] >= 0

\* a day on which a build was refused for lack of a resource, after a farm
\* had been paid for from the pool
C1_Witness ==
    /\ buildings.farms >= 1
    /\ resources.wood < 40
    /\ \E k \in 1 .. Len(messages) :
          messages[k].kind = "not_enough" /\ messages[k].res = "wood"

\* C2: a cut_tree(x, y, id) that follows a successful cut_tree(x, y, id), with
\* no reset in between, returns (False, 0) and leaves the pool of the grid as
\* it is; a successful cut adds to the wood exactly the yield it returns, so
\* the pool grows by the yield of the first call only.
C2_CutIdempotent ==
    [][\A x \in 0 .. grid_size, y \in 0 .. grid_size, id \in 0 .. MaxTreeId :
          CutTree(x, y, id) =>
             /\ <<x, y, id>> \in felled =>
                   cut_ret' = <<FALSE, 0>> /\ grid_resources' = grid_resources
             /\ grid_resources'.wood = grid_resources.wood
                                       + (IF cut_ret'[1] THEN cut_ret'[2] ELSE 0)
             /\ cut_ret'[1] => cut_ret'[2] >= 1 /\ <<x, y, id>> \notin felled
             /\ grid_resources'.stone = grid_resources.stone
             /\ grid_resources'.food = grid_resources.food]_vars

\* the second cut of a felled tree has just returned (False, 0), the wood of
\* the first cut is in the pool
C2_Witness ==
    /\ cut_call \in felled
    /\ cut_ret = <<FALSE, 0>>
    /\ grid_resources.wood \in WoodYields

\* C3: over days driven by the rule engine (its decisions applied, then the
\* day executed) no villager's job_tier decreases, and no villager's job moves
\* to an earlier job of its path.
C3_NoDemotion ==
    [][\A i \in 1 .. Len(villagers) :
          /\ villagers'[i].job_tier >= villagers[i].job_tier
          /\ JobTreePath(villagers'[i].job) = JobTreePath(villagers[i].job)
                => JobTreeTier(villagers'[i].job) >= JobTreeTier(villagers[i].job)]_vars

\* the call of execute_action has returned
Returned == ret.message # Pending

\* what the call returned equals what it was given
InputsReturned ==
    /\ ret.villager = call.villager
    /\ ret.resources = call.resources
    /\ ret.buildings = call.buildings

\* the list under one of the keys of an action that name resources, if present
NeedsOf(action, key) ==
    IF action \in ActionNames /\ key \in DOMAIN Actions[action]
    THEN Actions[action][key] ELSE << >>

\* the amount of resource r in a list of needs
AmountOf(needs, r) ==
    IF \E i \in 1 .. Len(needs) : needs[i].res = r
    THEN (CHOOSE n \in {needs[i] : i \in 1 .. Len(needs)} : n.res = r).amount
    ELSE 0

\* the four reasons for which execute_action rejects a call
UnknownAction == call.action \notin ActionNames
Ineligible ==
    /\ call.action \in ActionNames
    /\ Actions[call.action].job_requirements # {}
    /\ call.villager.job \notin Actions[call.action].job_requirements
TooTired ==
    /\ call.action \in ActionNames
    /\ "stamina_cost" \in DOMAIN Actions[call.action]
    /\ call.villager.stamina < Actions[call.action].stamina_cost
ResourceMissing ==
    \E key \in {"requires_resources", "resource_cost"}, r \in ResourceNames :
        call.resources[r] < AmountOf(NeedsOf(call.action, key), r)

\* C4: a call of execute_action is rejected exactly when the action is
\* unknown, the job is not eligible, the stamina is below the cost or a needed
\* resource is missing, and a rejected call returns its inputs: the villager
\* (stamina, experience), every pool entry and every building count as given.
\* A woodcutter with stamina 0.1 is too tired for chop_wood and keeps 0.1.
C4_RejectionReturnsInputs ==
    Returned =>
        /\ (UnknownAction \/ Ineligible \/ TooTired \/ ResourceMissing)
              <=> ret.message.kind \in Rejections
        /\ ret.message.kind \in Rejections => InputsReturned
        /\ (call.action = "chop_wood" /\ call.villager.stamina = 10
              /\ call.villager.job \in {"woodcutter", "lumberjack", "builder"})
              => ret.message.kind = "too_tired" /\ ret.villager.stamina = 10

\* chop_wood was refused to a woodcutter with stamina 0.1
C4_Witness ==
    /\ call.action = "chop_wood"
    /\ call.villager.job = "woodcutter"
    /\ call.villager.stamina = 10
    /\ ret.message.kind = "too_tired"

BuildActionNames == {a \in ActionNames : "building" \in DOMAIN Actions[a]}

\* C5: a build by an eligible villager with the stamina for it either finds
\* every resource of its cost and then deducts each by its cost, raises the
\* counter of its building by 1 (and no other), takes the stamina cost and adds
\* the experience gain up to 100; or finds one missing and then returns pool,
\* counters and villager as given.
C5_BuildAllOrNothing ==
    (Returned /\ call.action \in BuildActionNames /\ ~Ineligible /\ ~TooTired) =>
        LET action_def == Actions[call.action]
            cost(r) == AmountOf(action_def.resource_cost, r)
        IN IF \A r \in ResourceNames : call.resources[r] >= cost(r)
           THEN /\ ret.message.kind = "built"
                /\ \A r \in ResourceNames : ret.resources[r] = call.resources[r] - cost(r)
                /\ \A b \in BuildingNames :
                      ret.buildings[b] = call.buildings[b]
                                         + (IF b = action_def.building THEN 1 ELSE 0)
                /\ ret.villager =
                      [call.villager EXCEPT
                          !.stamina = @ - action_def.stamina_cost,
                          !.experience = Min(100, @ + action_def.experience_gain)]
           ELSE /\ ret.message.kind = "not_enough"
                /\ InputsReturned

\* build_house was refused with the wood of its cost in the pool and the stone
\* missing: the wood is still there
C5_Witness ==
    /\ call.action = "build_house"
    /\ call.resources.wood >= 50
    /\ call.resources.stone < 30
    /\ ret.message.kind = "not_enough"
    /\ ret.resources.wood = call.resources.wood

GatherActionNames == {a \in ActionNames : "resource" \in DOMAIN Actions[a]}

\* the multipliers as the claim lists them, in tenths
ListedMultiplier(job_tier) ==
    IF job_tier = 1 THEN 10
    ELSE IF job_tier = 2 THEN 15
    ELSE IF job_tier = 3 THEN 20
    ELSE 10

\* trunc(base_yield x multiplier x v), v in hundredths
ListedYield(base_yield, job_tier, v) ==
    CHOOSE n \in 0 .. base_yield * 3 :
        /\ n * 1000 <= base_yield * ListedMultiplier(job_tier) * v
        /\ base_yield * ListedMultiplier(job_tier) * v < (n + 1) * 1000

\* C9: a gather that is not rejected leaves the pool entry of its resource at
\* what the consumption of its input left plus trunc(base_yield x multiplier x
\* v), the multipliers being 1.0, 1.5 and 2.0 for the tiers 1, 2 and 3 and 1.0
\* for any other tier; it takes the stamina cost, adds the experience gain up
\* to 100 and changes no other pool entry and no building count.  For the same
\* action and draw the yield of tier 3 is at least that of tier 2, which is at
\* least that of tier 1.
C9_GatherYield ==
    (Returned /\ call.action \in GatherActionNames
        /\ ~Ineligible /\ ~TooTired /\ ~ResourceMissing) =>
        LET action_def == Actions[call.action]
            yield(job_tier) == ListedYield(action_def.base_yield, job_tier, call.variance)
            consumed(r) == AmountOf(NeedsOf(call.action, "requires_resources"), r)
        IN /\ ret.message.kind = "gathered"
           /\ ret.message.amount = yield(call.villager.job_tier)
           /\ \A r \in ResourceNames :
                 ret.resources[r] = call.resources[r] - consumed(r)
                    + (IF r = action_def.resource
                       THEN yield(call.villager.job_tier) ELSE 0)
           /\ ret.buildings = call.buildings
           /\ ret.villager =
                 [call.villager EXCEPT
                     !.stamina = @ - action_def.stamina_cost,
                     !.experience = Min(100, @ + action_def.experience_gain)]
           /\ ActualYield(action_def.base_yield, 3, call.variance)
                 >= ActualYield(action_def.base_yield, 2, call.variance)
           /\ ActualYield(action_def.base_yield, 2, call.variance)
                 >= ActualYield(action_def.base_yield, 1, call.variance)

\* a farmer of tier 2 has farmed crops at the highest draw: 15 x 1.5 x 1.2 = 27
C9_Witness ==
    /\ call.action = "farm_crops"
    /\ call.villager.job_tier = 2
    /\ call.variance = 120
    /\ ret.message.kind = "gathered"
    /\ ret.resources.food = call.resources.food + 27

\* C10: rest is accepted whatever the job and the stamina of the villager,
\* 0 included: it returns the villager with stamina min(1.0, stamina + 0.40)
\* and nothing else changed (experience, job, tier), and the pool and the
\* building counts as given.
C10_RestAlwaysAccepted ==
    (Returned /\ call.action = "rest") =>
        /\ ret.message.kind = "rested"
        /\ ret.villager = [call.villager EXCEPT !.stamina = Min(100, @ + 40)]
        /\ ret.villager.stamina <= 100
        /\ ret.resources = call.resources
        /\ ret.buildings = call.buildings

\* a villager of a job no action names, with no stamina left, has rested
C10_Witness ==
    /\ call.action = "rest"
    /\ call.villager.job = "bard"
    /\ call.villager.stamina = 0
    /\ ret.message.kind = "rested"
    /\ ret.villager.stamina = 40

\* the villager has the job and the stamina the action asks for
CanStart(villager, action) ==
    /\ action \in ActionNames
    /\ Actions[action].job_requirements # {}
          => villager.job \in Actions[action].job_requirements
    /\ "stamina_cost" \in DOMAIN Actions[action]
          => villager.stamina >= Actions[action].stamina_cost

\* what the turn that ended with message m, of a villager with that task, put
\* into (or took from) the pool entry r
Contribution(m, task, r) ==
    IF m.kind = "gathered"
    THEN (IF m.res = r THEN m.amount ELSE 0)
         - AmountOf(NeedsOf(task, "requires_resources"), r)
    ELSE IF m.kind = "built"
    THEN 0 - AmountOf(NeedsOf(task, "resource_cost"), r)
    ELSE 0

\* the sum of the contributions of the first k turns of a day
RECURSIVE PrefixChange(_, _, _, _)
PrefixChange(msgs, vs, k, r) ==
    IF k = 0 THEN 0
    ELSE PrefixChange(msgs, vs, k - 1, r)
         + Contribution(msgs[k], vs[k].assigned_task, r)

\* C6: within a day the k-th villager acts on the pool the villagers before it
\* left: its build succeeds exactly when the pool of the start of the day plus
\* the changes of the earlier turns covers the cost.  With the first two
\* villagers on the same build and a pool that covers it once but not twice
\* the first builds and the second is refused; with both on chop_wood, also at
\* wood = 0, both gather and the wood grows by both yields.
C6_RunningPool ==
    [][day' = day + 1 =>
        LET a == villagers[1]
            b == villagers[2]
            seen(k, r) == resources[r] + PrefixChange(messages', villagers, k - 1, r)
            cost(t, r) == AmountOf(NeedsOf(t, "resource_cost"), r)
        IN /\ \A k \in 1 .. Len(villagers) :
                 LET t == villagers[k].assigned_task IN
                 (t \in BuildActionNames /\ CanStart(villagers[k], t)) =>
                    /\ messages'[k].kind \in {"built", "not_enough"}
                    /\ messages'[k].kind = "built"
                          <=> \A r \in ResourceNames : seen(k, r) >= cost(t, r)
           /\ \A t \in BuildActionNames :
                 ( /\ a.assigned_task = t /\ b.assigned_task = t
                   /\ CanStart(a, t) /\ CanStart(b, t)
                   /\ \A r \in ResourceNames : resources[r] >= cost(t, r)
                   /\ \E r \in ResourceNames : resources[r] < 2 * cost(t, r) )
                 => /\ messages'[1].kind = "built"
                    /\ messages'[2].kind = "not_enough"
                    /\ villagers'[2] = b
           /\ ( /\ a.assigned_task = "chop_wood" /\ b.assigned_task = "chop_wood"
                /\ CanStart(a, "chop_wood") /\ CanStart(b, "chop_wood") )
              => /\ messages'[1].kind = "gathered" /\ messages'[1].amount >= 1
                 /\ messages'[2].kind = "gathered" /\ messages'[2].amount >= 1
                 /\ seen(3, "wood") = resources.wood + messages'[1].amount
                                                     + messages'[2].amount
                 /\ resources'.wood = seen(Len(villagers) + 1, "wood")]_vars

\* the first villager has built a house with the wood and the stone the pool
\* had and the second, on the same build, was refused for the wood
C6_Witness ==
    /\ Len(messages) >= 2
    /\ messages[1].kind = "built" /\ messages[1].res = "houses"
    /\ messages[2].kind = "not_enough" /\ messages[2].res = "wood"
    /\ villagers[2].assigned_task = "build_house"
    /\ buildings.houses = 2

\* the number of turns of a day that ended with building b
RECURSIVE Built(_, _, _)
Built(msgs, k, b) ==
    IF k = 0 THEN 0
    ELSE Built(msgs, k - 1, b)
         + (IF msgs[k].kind = "built" /\ msgs[k].res = b THEN 1 ELSE 0)

\* C7: the day is 1 at first.  A step that changes the day is one execute_day:
\* it adds exactly 1, after one turn for each villager of the roster, in
\* order, whatever the outcome of the turns; a villager's task has taken
\* effect at most once, and the turn of a villager with no task leaves the
\* villager as it was and puts nothing into the pool or the buildings.  Any
\* other step leaves the day.
C7_DayCounter ==
    /\ day = 1
    /\ [][IF messages' # messages \/ resources' # resources \/ buildings' # buildings
             \/ day' # day
          THEN /\ day' = day + 1
               /\ Len(messages') = Len(villagers)
               /\ Len(villagers') = Len(villagers)
               /\ \A k \in 1 .. Len(villagers) :
                     LET v == villagers[k]
                         t == v.assigned_task
                         m == messages'[k]
                     IN /\ m.name = v.name
                        /\ ~Truthy(t) => m.kind = "idle"
                        /\ villagers'[k] =
                              IF m.kind \in {"gathered", "built"}
                              THEN [v EXCEPT
                                      !.stamina = @ - Actions[t].stamina_cost,
                                      !.experience =
                                         Min(100, @ + Actions[t].experience_gain)]
                              ELSE IF m.kind = "rested"
                              THEN [v EXCEPT !.stamina = Min(100, @ + 40)]
                              ELSE v
               /\ \A r \in ResourceNames :
                     resources'[r] =
                        resources[r] + PrefixChange(messages', villagers, Len(villagers), r)
               /\ \A b \in BuildingNames :
                     buildings'[b] = buildings[b] + Built(messages', Len(villagers), b)
          ELSE day' = day]_vars

\* a day has been executed on which one villager succeeded, one was rejected
\* and one was idle
C7_Witness ==
    /\ day > 1
    /\ \E i, j, k \in 1 .. Len(messages) :
          /\ messages[i].kind = "gathered"
          /\ messages[j].kind \in Rejections
          /\ messages[k].kind = "idle"

\* C8: the stamina of every villager is within [0.0, 1.0] and the experience
\* within [0, 100]; no step lowers the experience of a villager, and at 100 it
\* stays there.
C8_StaminaExperienceRange ==
    /\ [](\A k \in 1 .. Len(villagers) :
             /\ villagers[k].stamina \in 0 .. 100
             /\ villagers[k].experience \in 0 .. 100)
    /\ [][\A k \in 1 .. Len(villagers) :
             /\ villagers'[k].experience >= villagers[k].experience
             /\ villagers[k].experience = 100 => villagers'[k].experience = 100]_vars

\* a villager has built, which took stamina and added experience, and is at
\* experience 100
C8_Witness ==
    \E k \in 1 .. Len(messages) :
        /\ messages[k].kind = "built"
        /\ villagers[k].experience = 100
        /\ villagers[k].stamina < 100
        /\ day = LateDay + 1

\* C11: cook_food with fewer than 10 food in the pool is rejected and returns
\* villager (stamina, experience) and pool as given; a chef with the stamina
\* for it and at least 10 food consumes exactly 10 and then adds the yield, so
\* the food changes by yield - 10 and is at no point below 0.
C11_CookFood ==
    (Returned /\ call.action = "cook_food") =>
        /\ call.resources.food < 10 =>
              /\ ret.message.kind \in Rejections
              /\ InputsReturned
              /\ (~Ineligible /\ ~TooTired) =>
                    ret.message.kind = "not_enough" /\ ret.message.res = "food"
        /\ (call.resources.food >= 10 /\ ~Ineligible /\ ~TooTired) =>
              /\ ret.message.kind = "gathered"
              /\ ret.message.amount
                    = ListedYield(20, call.villager.job_tier, call.variance)
              /\ ret.resources.food = call.resources.food - 10 + ret.message.amount
              /\ call.resources.food - 10 >= 0
              /\ ret.resources.food >= 0
              /\ ret.resources.wood = call.resources.wood
              /\ ret.resources.stone = call.resources.stone

\* a chef with the stamina for it was refused cook_food with 9 food in the pool
C11_Witness ==
    /\ call.action = "cook_food"
    /\ call.villager.job = "chef"
    /\ call.villager.stamina >= 10
    /\ call.resources.food = 9
    /\ ret.message.kind = "not_enough"
    /\ ret.resources.food = 9

\* C12: on the same action name, villager and pool, can_execute returns true
\* exactly when execute_action does not reject, and can_execute leaves the
\* villager and the pool as they were given.
C12_CanExecuteAgrees ==
    /\ (Returned /\ can.reason # "pending") =>
          (can.can_execute <=> ret.message.kind \notin Rejections)
    /\ can.reason # "pending" =>
          /\ can.villager = call.villager
          /\ can.resources = call.resources
          /\ can.can_execute <=> can.reason = "OK"

\* both were called on a build whose first cost is in the pool and whose
\* second is not: both refuse
C12_Witness ==
    /\ call.action = "build_house"
    /\ call.villager.job = "builder"
    /\ call.resources.wood >= 50
    /\ call.resources.stone < 30
    /\ can.reason = "not_enough"
    /\ ~can.can_execute
    /\ ret.message.kind = "not_enough"

\* C13: no step lowers a building count.  A count changes only in an
\* execute_day, and there by 1 for each turn of the day in which a build of
\* that building succeeded: the task of the turn is a build action of that
\* building and its message reports it built.
C13_BuildingCounts ==
    [][\A b \in BuildingNames :
          /\ buildings'[b] >= buildings[b]
          /\ IF day' = day + 1
             THEN /\ buildings'[b] = buildings[b] + Built(messages', Len(villagers), b)
                  /\ \A k \in 1 .. Len(villagers) :
                        (messages'[k].kind = "built" /\ messages'[k].res = b) =>
                           /\ villagers[k].assigned_task \in BuildActionNames
                           /\ Actions[villagers[k].assigned_task].building = b
                           /\ CanStart(villagers[k], villagers[k].assigned_task)
             ELSE buildings'[b] = buildings[b]]_vars

\* two villagers have each built a house on the same day, a third turn of the
\* day has built nothing: the count went from 1 to 3
C13_Witness ==
    /\ Len(messages) >= 3
    /\ messages[1].kind = "built" /\ messages[1].res = "houses"
    /\ messages[2].kind = "built" /\ messages[2].res = "houses"
    /\ messages[3].kind # "built"
    /\ buildings = [houses |-> 3, workshops |-> 0, farms |-> 0]


\* a step that is one /oracle/apply request
AppliedNow ==
    /\ last_decisions = << >>
    /\ last_decisions' # << >>
    /\ last_decisions'[1] = "apply"

\* the state after one /oracle/apply request
Applied == last_decisions # << >> /\ last_decisions[1] = "apply"

\* C14: an assignment naming a villager of the roster overwrites job and
\* job_tier together exactly when it carries a new_job that differs from the
\* villager's job (with the same job both stay, whatever job_tier it carries,
\* and no job is refused), overwrites assigned_task exactly when it carries a
\* task, and changes nothing else: no other villager, and for any decisions
\* no stamina, experience, name, pool, building count or day.
C14_Assignment ==
    [][AppliedNow =>
         LET d == last_decisions'[2]
         IN /\ Len(villagers') = Len(villagers)
            /\ \A j \in 1 .. Len(villagers) :
                  /\ villagers'[j].stamina = villagers[j].stamina
                  /\ villagers'[j].experience = villagers[j].experience
                  /\ villagers'[j].name = villagers[j].name
            /\ resources' = resources
            /\ buildings' = buildings
            /\ day' = day
            /\ (/\ Len(d.assignments) = 1
                /\ d.build_actions = << >>
                /\ \E j \in 1 .. Len(villagers) : villagers[j].name = d.assignments[1].name)
               => LET a == d.assignments[1]
                      i == FindVillager(villagers, a.name)
                      changes == a.new_job \notin {None, "", villagers[i].job}
                  IN /\ villagers[i].name = a.name
                     /\ \A j \in 1 .. i - 1 : villagers[j].name # a.name
                     /\ villagers'[i].job =
                           IF changes THEN a.new_job ELSE villagers[i].job
                     /\ villagers'[i].job_tier =
                           IF changes THEN a.job_tier ELSE villagers[i].job_tier
                     /\ villagers'[i].assigned_task =
                           IF a.task \notin {None, ""} THEN a.task
                           ELSE villagers[i].assigned_task
                     /\ \A j \in 1 .. Len(villagers) :
                           j # i => villagers'[j] = villagers[j]]_vars

\* a tier-1 woodcutter was assigned woodcutter with job_tier 3 and no task:
\* job, tier and task are the old ones
C14_Witness ==
    /\ last_decisions =
          <<"apply", [assignments |-> << Assignment("Alice", "woodcutter", 3, None) >>,
                      build_actions |-> << >>]>>
    /\ villagers[1].job = "woodcutter"
    /\ villagers[1].job_tier = 1
    /\ villagers[1].assigned_task = "rest"
    /\ villagers[1].stamina = 55

\* the index of the last build_action for this villager, 0 without one
LastFor(build_actions, name) ==
    LET S == {k \in 1 .. Len(build_actions) : build_actions[k].assigned_to = name}
    IN IF S = {} THEN 0 ELSE CHOOSE k \in S : \A m \in S : m <= k

\* C15: the assignments are applied before the build_actions: after the call
\* every villager of the roster that a build_action names has the task
\* build_<building> of the last build_action naming it, whatever task an
\* assignment of the same call gave it, and keeps the job the assignments
\* gave it.
C15_BuildActionsLast ==
    Applied =>
       LET d == last_decisions[2]
       IN \A k \in 1 .. Len(d.build_actions) :
             LET name == d.build_actions[k].assigned_to
                 i == FindVillager(villagers, name)
                 last == LastFor(d.build_actions, name)
             IN i # 0 =>
                   /\ villagers[i].assigned_task = "build_" \o d.build_actions[last].building
                   /\ \A m \in 1 .. Len(d.assignments) :
                         (/\ d.assignments[m].name = name
                          /\ d.assignments[m].new_job = "builder"
                          /\ \A n \in m + 1 .. Len(d.assignments) :
                                d.assignments[n].name # name)
                         => villagers[i].job = "builder"

\* Alice was assigned builder with task chop_wood and named by two
\* build_actions, house then farm: she is a builder with task build_farm
C15_Witness ==
    /\ last_decisions =
          <<"apply", [assignments |-> << Assignment("Alice", "builder", 3, "chop_wood") >>,
                      build_actions |-> << BuildAction("house", "Alice"),
                                           BuildAction("farm", "Alice") >>]>>
    /\ villagers[1].job = "builder"
    /\ villagers[1].assigned_task = "build_farm"

\* C16: entries naming nobody of the roster change nothing and end nothing:
\* the call leaves the roster that the same decisions without these entries
\* leave, the roster itself when no entry is left, and no other state changes.
C16_UnknownNames ==
    [][AppliedNow =>
         LET d == last_decisions'[2]
             names == {villagers[j].name : j \in 1 .. Len(villagers)}
             KnownAssignment(a) == a.name \in names
             KnownBuildAction(b) == b.assigned_to \in names
             known == [assignments |-> SelectSeq(d.assignments, KnownAssignment),
                       build_actions |-> SelectSeq(d.build_actions, KnownBuildAction)]
         IN /\ villagers' = ApplyDecisions(villagers, known)
            /\ (known.assignments = << >> /\ known.build_actions = << >>)
                  => villagers' = villagers
            /\ \A k \in 1 .. Len(d.assignments) :
                  (/\ d.assignments[k].name \in names
                   /\ d.assignments[k].task # None
                   /\ \A n \in k + 1 .. Len(d.assignments) :
                         d.assignments[n].name # d.assignments[k].name
                   /\ \A n \in 1 .. Len(d.build_actions) :
                         d.build_actions[n].assigned_to # d.assignments[k].name)
                  => villagers'[FindVillager(villagers, d.assignments[k].name)].assigned_task
                        = d.assignments[k].task
            /\ UNCHANGED <<resources, buildings, day, messages, last_day>>]_vars

\* an assignment and a build_action for Nobody came before those for Bob and
\* Alice, which were applied
C16_Witness ==
    /\ last_decisions =
          <<"apply", [assignments |-> << Assignment("Nobody", "builder", 3, "rest"),
                                         Assignment("Bob", None, 1, "gather_food") >>,
                      build_actions |-> << BuildAction("house", "Nobody"),
                                           BuildAction("farm", "Alice") >>]>>
    /\ Len(villagers) = 2
    /\ villagers[2].assigned_task = "gather_food"
    /\ villagers[1].assigned_task = "build_farm"


\* the state after one /oracle/consult request
Consulted == last_decisions # << >> /\ last_decisions[1] = "consult"

\* C17: for a villager with stamina below 0.2 the rule engine emits its name,
\* its unchanged job and tier and the task rest, and no build_action, whatever
\* its experience and the pool.
C17_TiredRests ==
    Consulted =>
       LET d == last_decisions[2]
       IN /\ Len(d.assignments) = Len(villagers)
          /\ \A k \in 1 .. Len(villagers) :
                villagers[k].stamina < 20 =>
                   /\ d.assignments[k] =
                         [name |-> villagers[k].name, new_job |-> villagers[k].job,
                          job_tier |-> villagers[k].job_tier, task |-> "rest"]
                   /\ \A n \in 1 .. Len(d.build_actions) :
                         d.build_actions[n].assigned_to # villagers[k].name

\* a tired tier-2 lumberjack with experience 91 and 201 wood in the pool, whom
\* the promotion rule would make a builder, stays a lumberjack and rests
C17_Witness ==
    /\ Consulted
    /\ Len(villagers) = 1
    /\ villagers[1].job = "lumberjack" /\ villagers[1].job_tier = 2
    /\ villagers[1].experience = 91 /\ villagers[1].stamina = 19
    /\ resources.wood = 201
    /\ last_decisions[2].assignments[1].task = "rest"
    /\ last_decisions[2].assignments[1].new_job = "lumberjack"
    /\ last_decisions[2].build_actions = << >>

\* the promotion table of the rule engine
ListedPromotion(job, tier, exp, res) ==
    CASE <<job, tier>> = <<"woodcutter", 1>> /\ exp > 70 -> <<"lumberjack", 2>>
      [] <<job, tier>> = <<"forager", 1>> /\ exp > 70 -> <<"farmer", 2>>
      [] <<job, tier>> = <<"miner", 1>> /\ exp > 70 -> <<"excavator", 2>>
      [] <<job, tier>> = <<"lumberjack", 2>> /\ exp > 85 /\ res.wood > 200 -> <<"builder", 3>>
      [] <<job, tier>> = <<"farmer", 2>> /\ exp > 90 /\ res.food > 200 -> <<"chef", 3>>
      [] <<job, tier>> = <<"excavator", 2>> /\ exp > 90 /\ res.stone > 150 -> <<"engineer", 3>>
      [] OTHER -> <<job, tier>>

\* C18: for a villager that does not rest the rule engine emits the job and
\* tier of the promotion table, at most one tier above the villager's; with
\* {wood 250, stone 0, food 0} a tier-2 lumberjack of experience 90 becomes a
\* tier-3 builder with task build_house and a build_action for a house.
C18_Promotion ==
    Consulted =>
       LET d == last_decisions[2]
       IN /\ Len(d.assignments) = Len(villagers)
          /\ \A k \in 1 .. Len(villagers) :
                LET v == villagers[k]
                    a == d.assignments[k]
                IN v.stamina >= 20 =>
                      /\ <<a.new_job, a.job_tier>> =
                            ListedPromotion(v.job, v.job_tier, v.experience, resources)
                      /\ a.job_tier \in {v.job_tier, v.job_tier + 1}
                      /\ (/\ resources = [wood |-> 250, stone |-> 0, food |-> 0]
                          /\ v.job = "lumberjack" /\ v.job_tier = 2 /\ v.experience = 90)
                         => /\ a = [name |-> v.name, new_job |-> "builder",
                                    job_tier |-> 3, task |-> "build_house"]
                            /\ \E n \in 1 .. Len(d.build_actions) :
                                  d.build_actions[n] =
                                     [building |-> "house", assigned_to |-> v.name]

\* the scenario of the claim was decided
C18_Witness ==
    /\ Consulted
    /\ resources = [wood |-> 250, stone |-> 0, food |-> 0]
    /\ Len(villagers) = 1
    /\ villagers[1].job = "lumberjack" /\ villagers[1].job_tier = 2
    /\ villagers[1].experience = 90 /\ villagers[1].stamina = 20
    /\ last_decisions[2].assignments[1].new_job = "builder"
    /\ last_decisions[2].build_actions = << [building |-> "house", assigned_to |-> "Alice"] >>

\* the task rules of the rule engine, the first that matches
ListedTask(job, tier, res) ==
    CASE tier = 3 /\ job = "builder" /\ res.wood >= 200 -> "build_house"
      [] tier = 3 /\ job = "engineer" /\ res.stone >= 150 /\ res.wood >= 100 -> "build_workshop"
      [] tier = 3 /\ job = "chef" /\ res.food >= 180 ->
            IF res.food > 50 THEN "cook_food" ELSE "gather_food"
      [] OTHER ->
         CASE res.wood < 100 /\ job \in {"woodcutter", "lumberjack", "builder"} -> "chop_wood"
           [] OTHER ->
              CASE res.food < 100 /\ job = "forager" -> "gather_food"
                [] res.food < 100 /\ job \in {"farmer", "chef"} -> "farm_crops"
                [] OTHER ->
                   CASE res.stone < 80 /\ job \in {"miner", "excavator", "engineer"} -> "mine_stone"
                     [] OTHER ->
                        CASE job \in {"woodcutter", "lumberjack", "builder"} -> "chop_wood"
                          [] job = "forager" -> "gather_food"
                          [] job = "farmer" -> "farm_crops"
                          [] job = "chef" -> "cook_food"
                          [] job \in {"miner", "excavator", "engineer"} -> "mine_stone"
                          [] OTHER -> "rest"

RECURSIVE ListedBuildActions(_, _)
ListedBuildActions(assignments, k) ==
    IF k > Len(assignments) THEN << >>
    ELSE LET a == assignments[k]
             B == {b \in {"house", "workshop", "farm"} : a.task = "build_" \o b}
         IN (IF a.job_tier = 3 /\ B # {}
             THEN << [building |-> CHOOSE b \in B : TRUE, assigned_to |-> a.name] >>
             ELSE << >>) \o ListedBuildActions(assignments, k + 1)

\* C20: the rule engine emits one assignment per villager, in roster order,
\* and a build_action {building, assigned_to} exactly for the villagers whose
\* tier after promotion is 3 and whose task starts with build_, the building
\* being the task without that prefix.
C20_OnePerVillager ==
    Consulted =>
       LET d == last_decisions[2]
       IN /\ Len(d.assignments) = Len(villagers)
          /\ \A k \in 1 .. Len(villagers) : d.assignments[k].name = villagers[k].name
          /\ d.build_actions = ListedBuildActions(d.assignments, 1)
          /\ \A k \in 1 .. Len(villagers) :
                d.assignments[k].job_tier # 3 =>
                   \A n \in 1 .. Len(d.build_actions) :
                      d.build_actions[n].assigned_to # villagers[k].name

\* Bob, a tier-3 builder, and Alice, promoted to builder, both got
\* build_house: two assignments and two build_actions in roster order
C20_Witness ==
    /\ Consulted
    /\ Len(villagers) = 2
    /\ villagers[2].job = "lumberjack"
    /\ last_decisions[2].assignments[1].name = "Bob"
    /\ last_decisions[2].assignments[2].name = "Alice"
    /\ last_decisions[2].assignments[2].new_job = "builder"
    /\ last_decisions[2].build_actions =
          << [building |-> "house", assigned_to |-> "Bob"],
             [building |-> "house", assigned_to |-> "Alice"] >>


\* the trees of the grid: <<tile key, index in the tile's list>>
TreesOf(g) == {t \in (DOMAIN g) \X (1 .. 2) : t[2] <= Len(g[t[1]].trees)}

\* tree t was created before tree u: its tile comes first in x-major, y-minor
\* order, or it is earlier in the list of the same tile
CreatedBefore(t, u) ==
    \/ t[1][1] < u[1][1]
    \/ t[1][1] = u[1][1] /\ t[1][2] < u[1][2]
    \/ t[1] = u[1] /\ t[2] < u[2]

\* C21: in every grid initialize_grid produces no two trees share an id, and
\* the ids increase strictly in creation order: tile by tile, x-major and
\* y-minor, and in list order within a tile.
C21_TreeIds ==
    \A t \in TreesOf(grid), u \in TreesOf(grid) :
       /\ t # u => grid[t[1]].trees[t[2]].id # grid[u[1]].trees[u[2]].id
       /\ CreatedBefore(t, u) => grid[t[1]].trees[t[2]].id < grid[u[1]].trees[u[2]].id

\* a grid with water at (0,1) and trees on the three other tiles, the one of
\* (1,0) before the two of (1,1)
C21_Witness ==
    /\ DOMAIN grid = (0 .. 1) \X (0 .. 1)
    /\ grid[<<0, 1>>].tile_type = "water"
    /\ Len(grid[<<0, 0>>].trees) = 0
    /\ Len(grid[<<1, 0>>].trees) = 1
    /\ Len(grid[<<1, 1>>].trees) = 2
    /\ grid[<<1, 0>>].trees[1].id = 0
    /\ grid[<<1, 1>>].trees[2].id = 2


\* the ids of the trees of a grid
IdsOf(g) == {g[t[1]].trees[t[2]].id : t \in TreesOf(g)}

\* a step gives no id that was given before: the ids of the trees it creates
\* are at or above the counter and are not those of the trees it replaces
GivesFreshIds ==
    grid_op' \in {"initialize_grid", "reset_grid"} =>
       /\ \A n \in IdsOf(grid') : n >= tree_id_counter
       /\ IdsOf(grid') \cap IdsOf(grid) = {}

\* C22 as claimed: over initialize_grid, cut_tree and reset_grid no id is
\* given twice (every id given so far is below the counter, a step gives ids
\* from the counter on) and the counter never decreases.
C22_NeverReused ==
    [][/\ \A n \in IdsOf(grid') : n < tree_id_counter'
       /\ GivesFreshIds
       /\ tree_id_counter' >= tree_id_counter]_vars

\* C22 amended: the same over initialize_grid and cut_tree; reset_grid sets
\* the counter to the number of trees of the new grid, whose ids are 0 up to
\* that number.
C22_NoReuseBetweenResets ==
    [][/\ \A n \in IdsOf(grid') : n < tree_id_counter'
       /\ IF grid_op' = "reset_grid"
          THEN /\ tree_id_counter' = Cardinality(TreesOf(grid'))
               /\ IdsOf(grid') = 0 .. tree_id_counter' - 1
          ELSE GivesFreshIds /\ tree_id_counter' >= tree_id_counter]_vars

\* initialize_grid ran again on a grid with trees: the new tree has the id
\* after those of the trees it replaced
C22_Witness ==
    /\ tree_id_counter = 3
    /\ DOMAIN grid = {<<0, 0>>}
    /\ Len(grid[<<0, 0>>].trees) = 1
    /\ grid[<<0, 0>>].trees[1].id = 2
    /\ grid_resources.wood > 0


\* C23: a water tile has no trees and any other tile at most two; cut_tree,
\* apply_tile_images, get_viewport and get_grid_state leave the tiles, the
\* tile_type of each and the trees of each list (their number and ids) as
\* they are.
C23_TilesAndTrees ==
    [][/\ \A p \in DOMAIN grid' :
             /\ grid'[p].tile_type = "water" => grid'[p].trees = << >>
             /\ Len(grid'[p].trees) \in {0, 1, 2}
       /\ grid_op' \in {"cut_tree", "apply_tile_images", "get_viewport", "get_grid_state"}
             => /\ DOMAIN grid' = DOMAIN grid
                /\ \A p \in DOMAIN grid :
                      /\ grid'[p].tile_type = grid[p].tile_type
                      /\ Len(grid'[p].trees) = Len(grid[p].trees)
                      /\ \A j \in 1 .. Len(grid[p].trees) :
                            grid'[p].trees[j].id = grid[p].trees[j].id]_vars

\* a grid with a water tile whose grass tiles got an image and whose first
\* tree was cut has been read through a viewport
C23_Witness ==
    /\ grid_op = "get_viewport"
    /\ Len(view.tiles) = 4
    /\ grid[<<0, 1>>].tile_type = "water"
    /\ grid[<<0, 1>>].trees = << >>
    /\ grid[<<0, 0>>].tile_image_url = "grass.png"
    /\ Len(grid[<<0, 0>>].trees) = 1
    /\ grid[<<0, 0>>].trees[1].cut
    /\ Len(grid[<<1, 0>>].trees) = 2


\* the trees of a grid that are not cut
StandingOf(g) == {t \in TreesOf(g) : ~g[t[1]].trees[t[2]].cut}

C25_Stats ==
    grid_op = "get_grid_state" =>
       /\ view.stats.total_trees = Cardinality(StandingOf(grid))
       /\ view.stats.trees_cut = Cardinality(TreesOf(grid) \ StandingOf(grid))


\* C26: a cut_tree that succeeds calls _analyze_environment once, and the call
\* finds the tree cut and the wood in the pool; a cut_tree that fails does
\* not call it and leaves oracle_position and environment_analysis.
C26_Hook ==
    [][grid_op' = "cut_tree" =>
          IF cut_ret'[1]
          THEN /\ Len(hook_seen') = 1
               /\ hook_seen'[1].tree_count = Cardinality(StandingOf(grid)) - 1
               /\ hook_seen'[1].tree_count = Cardinality(StandingOf(grid'))
               /\ hook_seen'[1].wood = grid_resources.wood + cut_ret'[2]
               /\ hook_seen'[1].wood = grid_resources'.wood
               /\ environment_analysis' # environment_analysis
                     => environment_analysis' = << [tree_count |-> hook_seen'[1].tree_count] >>
          ELSE /\ hook_seen' = << >>
               /\ oracle_position' = oracle_position
               /\ environment_analysis' = environment_analysis]_vars

\* the first of two trees was cut for 10 wood: the one call of the hook found
\* one standing tree and 10 wood, and its analysis was stored
C26_Witness ==
    /\ grid_op = "cut_tree"
    /\ cut_ret = <<TRUE, 10>>
    /\ Cardinality(TreesOf(grid)) = 2
    /\ hook_seen = << [tree_count |-> 1, wood |-> 10] >>
    /\ environment_analysis = << [tree_count |-> 1] >>


\* C27: after reset_grid, from any state, the pool is {wood 0, stone 0,
\* food 0}, the grid has a tile for each of the grid_size x grid_size
\* positions, no tree is cut, get_grid_state would report trees_cut 0, and the
\* id counter is the number of trees of the new grid.
C27_Reset ==
    [][grid_op' = "reset_grid" =>
          /\ grid_resources' = [wood |-> 0, stone |-> 0, food |-> 0]
          /\ DOMAIN grid' = (0 .. grid_size - 1) \X (0 .. grid_size - 1)
          /\ Cardinality(DOMAIN grid') = grid_size * grid_size
          /\ \A t \in TreesOf(grid') : ~grid'[t[1]].trees[t[2]].cut
          /\ GridState'.stats.trees_cut = 0
          /\ tree_id_counter' = Cardinality(TreesOf(grid'))]_vars

\* reset_grid was called after a cut had put wood into the pool, with the
\* counter above the two trees the new grid has
C27_Witness ==
    /\ grid_op = "reset_grid"
    /\ cut_ret = <<TRUE, 15>>
    /\ grid_resources.wood = 0
    /\ tree_id_counter = 2
    /\ Cardinality(TreesOf(grid)) = 2


\* a target inside [0, grid_size) x [0, grid_size)
InBounds(x, y) == x \in 0 .. grid_size - 1 /\ y \in 0 .. grid_size - 1

\* C28: a walk to a target outside [0, grid_size) x [0, grid_size) is
\* rejected and leaves the position; a walk to a target inside sets the
\* position to the target, from any position; a position in bounds stays in
\* bounds through every step of the builder.
C28_Walk ==
    [][/\ \A w \in WalkInputs :
             ActionWalk(w[1], w[2]) =>
                IF InBounds(w[1], w[2])
                THEN builder_ret'.success /\ position' = w
                ELSE ~builder_ret'.success /\ position' = position
       /\ (position # << >> /\ InBounds(position[1], position[2]))
             => InBounds(position'[1], position'[2])]_vars

\* the builder of the 7 x 7 grid, spawned next to the oracle and then at
\* (5, 5), was refused a walk
C28_Witness ==
    /\ grid_size = 7
    /\ position = <<5, 5>>
    /\ builder_ret = BuilderResult(FALSE, "walk", "out of bounds", 0)

\* C29: a cut at Manhattan distance above 1 is rejected without a call of
\* GridManager.cut_tree; any other cut calls it once with the same arguments;
\* when that call succeeds the inventory's wood rises by the yield it
\* returned, which is what the grid pool gained; when it fails neither the
\* inventory nor the grid changes.
C29_Cut ==
    [][\A c \in BuilderCutInputs :
          ActionCut(c[1], c[2], c[3]) =>
             IF Abs(c[1] - position[1]) + Abs(c[2] - position[2]) > 1
             THEN /\ ~builder_ret'.success
                  /\ delegated' = << >>
                  /\ UNCHANGED grid_vars
                  /\ inventory' = inventory
             ELSE /\ delegated' = << c >>
                  /\ cut_call' = c
                  /\ builder_ret'.success = cut_ret'[1]
                  /\ IF cut_ret'[1]
                     THEN /\ inventory' = [inventory EXCEPT !.wood = @ + cut_ret'[2]]
                          /\ grid_resources' =
                                [grid_resources EXCEPT !.wood = @ + cut_ret'[2]]
                          /\ builder_ret'.wood_gained = cut_ret'[2]
                     ELSE /\ inventory' = inventory
                          /\ grid' = grid
                          /\ grid_resources' = grid_resources]_vars

\* the builder who had been given 100 wood has cut the tree for 10 more
C29_Witness ==
    /\ builder_ret = BuilderResult(TRUE, "cut", None, 10)
    /\ delegated = << <<1, 1, 0>> >>
    /\ inventory.wood = 110
    /\ grid_resources.wood = 10
    /\ grid[<<1, 1>>].trees[1].cut

\* the cost table of the claim: <<wood, stone>>
ListedCost(building_type) ==
    CASE building_type = "house" -> <<50, 20>>
      [] building_type = "workshop" -> <<100, 50>>
      [] building_type = "farm" -> <<30, 10>>

GridHeld ==
    <<grid_size, grid, grid_resources, tree_id_counter, oracle_position,
      environment_analysis>>

\* C31: a builder action that returns success = false leaves position,
\* inventory, action_history and the grid as they were; one that returns
\* success = true appends exactly one entry to action_history and keeps the
\* entries it had; a successful talk changes nothing but that log.
C31_Failure ==
    [][builder_ret' # << >> =>
          IF builder_ret'.success
          THEN /\ Len(action_history') = Len(action_history) + 1
               /\ SubSeq(action_history', 1, Len(action_history)) = action_history
               /\ action_history'[Len(action_history')][1] = builder_ret'.action
               /\ builder_ret'.action = "talk"
                     => UNCHANGED <<position, inventory, GridHeld>>
          ELSE UNCHANGED <<position, inventory, action_history, GridHeld>>]_vars

\* a command that does not parse was refused to a builder who has wood and
\* two entries in the log, the second a cut
C31_Witness ==
    /\ builder_ret = BuilderResult(FALSE, "unknown", "invalid format", 0)
    /\ Len(action_history) = 2
    /\ action_history[2][1] = "cut"
    /\ inventory.wood > 0


\* the payloads the providers are asked for: an object with the two lists of
\* the decisions; a dict whose output, or else result, is a string
OracleWellFormed(o) ==
    /\ o.kind = "json"
    /\ o.value[1] = "object"
    /\ DOMAIN o.value[2] = {"assignments", "build_actions"}

BuilderWellFormed(o) ==
    /\ o.kind = "dict"
    /\ \/ o.output[1] = "str"
       \/ o.output[1] = "falsy" /\ o.result[1] = "str"

\* C32: for every outcome of the provider call, make_decision and
\* call_builder_ai return; when the provider did not deliver a well-formed
\* payload they return what the rule fallback computes for the same state.
C32_ProviderFallback ==
    /\ \A o \in OracleOutcomes :
          ~OracleWellFormed(o) =>
             LET d == MakeDecision([villagers |-> villagers, resources |-> resources], o)
             IN /\ d[1] = "object"
                /\ d[2] = FallbackLogic([villagers |-> villagers, resources |-> resources])
    /\ position # << >> =>
          \A o \in BuilderOutcomes :
             ~BuilderWellFormed(o) => CallBuilderAi(o) = FallbackDecision


\* C33: every task the rule engine assigns is an action of the catalog, the
\* job assigned with it is one of the action's eligible jobs unless the task
\* is rest, and execute_action rejects it neither as an unknown action nor
\* for a wrong job once the assignment is applied.
C33_AssignedTaskKnown ==
    Consulted =>
       \A k \in 1 .. Len(last_decisions[2].assignments) :
          LET a == last_decisions[2].assignments[k]
              v == [villagers[k] EXCEPT !.job = a.new_job, !.job_tier = a.job_tier]
          IN /\ a.task \in ActionNames
             /\ a.task = "rest" \/ a.new_job \in Actions[a.task].job_requirements
             /\ \A variance \in Variances :
                   ExecuteAction(a.task, v, resources, buildings, variance).message.kind
                      \notin {"unknown_action", "wrong_job"}

\* the rule engine decided for a villager whose job is none of the job tree
C33_Witness ==
    /\ Consulted
    /\ Len(villagers) = 1
    /\ villagers[1].job = "bard" /\ villagers[1].stamina = 20
    /\ last_decisions[2].assignments[1].task = "rest"
    /\ last_decisions[2].assignments[1].new_job = "bard"


\* what can_execute says of the k-th assignment of the consulted rule engine,
\* for the villager with the assigned job and tier and the pool decided from
CanAssigned(k) ==
    LET a == last_decisions[2].assignments[k]
    IN CanExecute(a.task,
                  [villagers[k] EXCEPT !.job = a.new_job, !.job_tier = a.job_tier],
                  resources)

\* C34: every task the rule engine assigns is executable on the state it was
\* decided from: can_execute is true for the villager with the assigned job
\* and tier and the resources of that state.
C34_AssignedTaskExecutable ==
    Consulted =>
       \A k \in 1 .. Len(last_decisions[2].assignments) : CanAssigned(k).can_execute

\* C34, amended: every task the rule engine assigns other than build_house and
\* build_workshop is executable on the state it was decided from; a
\* build_house is executable exactly when the villager has stamina 0.25 and
\* the pool 30 stone, which the rule engine does not look at.
C34_GatheringExecutable ==
    Consulted =>
       \A k \in 1 .. Len(last_decisions[2].assignments) :
          LET a == last_decisions[2].assignments[k]
          IN /\ a.task \notin {"build_house", "build_workshop"}
                   => CanAssigned(k).can_execute
             /\ a.task = "build_house"
                   => (CanAssigned(k).can_execute
                          <=> villagers[k].stamina >= 25 /\ resources.stone >= 30)

\* a rested tier-3 builder was sent to build a house on a pool of 250 wood
\* and no stone, next to a villager who got a task it can execute
C34_Witness ==
    /\ Consulted
    /\ Len(villagers) = 2
    /\ villagers[1].stamina = 100
    /\ resources.stone = 0
    /\ last_decisions[2].assignments[1].task = "build_house"
    /\ last_decisions[2].assignments[2].task = "mine_stone"
    /\ ~CanAssigned(1).can_execute
    /\ CanAssigned(2).can_execute


\* what the rule engine decides on the current village
Decided == FallbackLogic([villagers |-> villagers, resources |-> resources])

TooTiredToBuild(k) ==
    LET v == villagers[k]
    IN /\ v.job_tier = 3
       /\ v.stamina >= 20
       /\ \/ v.job = "builder" /\ resources.wood >= 200 /\ v.stamina < 25
          \/ /\ v.job = "engineer" /\ resources.stone >= 150 /\ resources.wood >= 100
             /\ v.stamina < 30

\* every villager that works on wood or stone is too tired for the building
\* it is sent to; the others are on the food path
Deadlocked ==
    /\ \A k \in 1 .. Len(villagers) :
          villagers[k].job \in {"forager", "farmer", "chef"} \/ TooTiredToBuild(k)
    /\ \E k \in 1 .. Len(villagers) : TooTiredToBuild(k)

\* the action of villager k in the last day was accepted
Accepted(k) ==
    /\ Len(messages) >= k
    /\ messages[k].kind \in {"gathered", "built", "rested"}

C37_FallbackCut ==
    [][/\ (position # << >> /\ SubSeq(FallbackDecision, 1, 3) = <<"C", "U", "T">>)
          => LET cut == SearchNumbers(FallbackDecision, 1, <<"C", "U", "T">>, 3)
             IN /\ Abs(cut[1] - position[1]) + Abs(cut[2] - position[2]) <= 1
                /\ \E i \in 1 .. Len(grid[<<cut[1], cut[2]>>].trees) :
                      /\ grid[<<cut[1], cut[2]>>].trees[i].id = cut[3]
                      /\ ~grid[<<cut[1], cut[2]>>].trees[i].cut
       /\ (position # << >> /\ builder_ret' # << >> /\ builder_ret'.action = "cut")
          => /\ builder_ret'.success
             /\ inventory'.wood > inventory.wood]_vars

\* the command is a BUILD
IsBuild(command) ==
    Len(command) >= 5 /\ SubSeq(command, 1, 5) = <<"B", "U", "I", "L", "D">>

\* C38: a builder that starts with an empty inventory and is driven only by
\* the fallback heuristic never emits a BUILD command: in every reachable
\* state its wood is below 100 (at most 49 + 15) and its stone is 0, and no
\* build is in its history.
C38_NeverBuilds ==
    position # << >> =>
       /\ inventory.wood < 100
       /\ inventory.wood <= 49 + 15
       /\ inventory.stone = 0
       /\ ~IsBuild(FallbackDecision)
       /\ \A i \in 1 .. Len(action_history) : action_history[i][1] # "build"
       /\ builder_ret # << >> => builder_ret.action # "build"

\* the builder has 50 wood or more after its cuts, a tree stands next to it,
\* and the heuristic made it talk
C38_Witness ==
    /\ position # << >>
    /\ inventory.wood >= 50
    /\ \E c \in NearbyTrees : Abs(c[1]) + Abs(c[2]) <= 1
    /\ builder_ret # << >>
    /\ builder_ret.action = "talk"
    /\ builder_ret.success

\* the trees of a grid whose cut flag is true
CountCutTrees(g) ==
    Sum([p \in DOMAIN g |-> Cardinality({j \in 1 .. Len(g[p].trees) : g[p].trees[j].cut})],
        DOMAIN g)

\* C39: after one initialize_grid, through any sequence of cut_tree and
\* reset_grid calls, the wood of the grid pool lies between 5 and 15 times
\* the number of trees whose cut flag is true, and stone and food are 0.
C39_PoolFromCuts ==
    grid_op # "none" =>
       /\ 5 * CountCutTrees(grid) <= grid_resources.wood
       /\ grid_resources.wood <= 15 * CountCutTrees(grid)
       /\ grid_resources.stone = 0
       /\ grid_resources.food = 0

\* two trees were cut, for 5 and for 15 wood: the pool holds 20
C39_Witness ==
    /\ grid_op = "cut_tree"
    /\ cut_ret = <<TRUE, 15>>
    /\ CountCutTrees(grid) = 2
    /\ grid_resources.wood = 20
    /\ Cardinality(felled) = 2

\* message m is what executing task for the villager of that name can say
ExecutedTask(task, name, m) ==
    /\ m.name = name
    /\ IF ~Truthy(task) THEN m.kind = "idle"
       ELSE IF task \notin ActionNames THEN m.kind = "unknown_action"
       ELSE \/ m.kind \in {"wrong_job", "too_tired", "not_enough"}
            \/ task = "rest" /\ m.kind = "rested"
            \/ /\ "resource" \in DOMAIN Actions[task]
               /\ m.kind = "gathered"
               /\ m.res = Actions[task].resource
            \/ "building" \in DOMAIN Actions[task] /\ m.kind = "built"

\* C40: execute_day never clears or changes assigned_task: every day each
\* villager executes the task it holds, accepted or rejected, and holds it
\* afterwards; a task changes only in apply_oracle_decisions, and only to
\* another task, never to none; the villager add_villager appends has no
\* task and is idle on every day until it is assigned one.
C40_TaskKept ==
    [][/\ day' # day =>
             /\ Len(villagers') = Len(villagers)
             /\ Len(messages') = Len(villagers)
             /\ \A k \in 1 .. Len(villagers) :
                   /\ villagers'[k].assigned_task = villagers[k].assigned_task
                   /\ ExecutedTask(villagers[k].assigned_task, villagers[k].name,
                                   messages'[k])
       /\ Len(villagers') > Len(villagers) =>
             /\ Len(villagers') = Len(villagers) + 1
             /\ villagers'[Len(villagers')].assigned_task = None
             /\ SubSeq(villagers', 1, Len(villagers)) = villagers
       /\ \A k \in 1 .. Len(villagers) :
             villagers'[k].assigned_task # villagers[k].assigned_task
                => /\ day' = day
                   /\ Truthy(villagers'[k].assigned_task)]_vars

\* two days were executed: Alice, not a chef, was rejected for cook_food and
\* still holds it, Bob never had a task, the added Dave was idle
C40_Witness ==
    /\ day = 3
    /\ Len(villagers) = 4
    /\ villagers[1].assigned_task = "cook_food"
    /\ messages[1].kind = "wrong_job"
    /\ villagers[2].assigned_task = None
    /\ messages[2].kind = "idle"
    /\ villagers[4].assigned_task = None
    /\ messages[4].kind = "idle"

=============================================================================
